---- MODULE Spec2Model ----
(***************************************************************************)
(* Model of backend/document_processor_vector.py (class DocumentProcessor):*)
(* the chunker, the FAISS vector index, the BM25 keyword index, hybrid     *)
(* search, and the four persisted artifacts.                               *)
(*                                                                         *)
(* Texts are sequences of one-character strings.  Scores are fixed-point   *)
(* integers: vector and BM25 scores in thousandths, combined scores in     *)
(* ten-thousandths.                                                        *)
(***************************************************************************)
EXTENDS Integers, Sequences, FiniteSets, TLC

VARIABLES
    index,            \* self.index: the FAISS vectors, in insertion order
    chunks,           \* self.chunks
    documents,        \* self.documents: doc_id -> record
    bm25,             \* self.bm25 (built = FALSE models None)
    tokenized_chunks, \* self.tokenized_chunks
    disk,             \* the four artifacts under upload_dir
    uploads,          \* names of the uploaded files written to upload_dir
    last,             \* the last call made on the processor and its outcome
    saveStatus,       \* outcome of the latest _save_persistent_data of this process
    ncalls,           \* number of process_document calls and restarts made
    nfaults,          \* number of save failures so far
    boot,             \* what the latest construction loaded: skew and alignment
    ct,               \* one run of _chunk_text: its arguments and locals
    tasks,            \* unserialized process_document calls: position and locals
    mode,             \* whether the serving layer serializes ingestion
    sc,               \* one run of the scoring loop of search_documents: its locals
    rag,              \* one generate_answer call: the pipeline, its arguments, its result
    ex,               \* one structured extraction call: the generative outcome, its result
    conv              \* the hiring conversation: its session state and saved records

vars == <<index, chunks, documents, bm25, tokenized_chunks, disk, uploads,
          last, saveStatus, ncalls, nfaults, boot, ct, tasks, mode, sc,
          rag, ex, conv>>

\* the collaborators of the document processor and the conversation
appvars == <<rag, ex, conv>>

\* the document processor and the runs of its functions
procvars == <<index, chunks, documents, bm25, tokenized_chunks, disk, uploads,
              last, saveStatus, ncalls, nfaults, boot, ct, tasks, mode, sc>>

memvars == <<index, chunks, documents, bm25, tokenized_chunks>>

-----------------------------------------------------------------------------
(* Bounds of the model *)

\* longest enumerated text handed to the chunker
MaxTextLen == 3
\* largest enumerated chunk_size / overlap argument
MaxChunkArg == 2
\* windows after which a non-terminating chunker run is cut off
MaxWindows == 5
\* process_document calls plus restarts in one behaviour
MaxCalls == 3
\* the same, in the behaviours that end with a search
MaxQueryCalls == 2
\* restarts in the behaviours with unserialized ingestion
MaxTaskRestarts == 1
\* I/O failures of _save_persistent_data in one behaviour
MaxFaults == 1

-----------------------------------------------------------------------------
(* Python string helpers *)

Min(a, b) == IF a < b THEN a ELSE b
Max(a, b) == IF a > b THEN a ELSE b

Rep(c, n) == [i \in 1..n |-> c]

\* the characters of the model's texts
Alphabet == {"a", "b", "A", " ", "."}

\* str.isspace for the model's characters
IsSpace(c) == c \in {" "}

\* \w of the re module
IsWord(c) == c \in {"a", "b", "A"}

\* str.lower
Lower(c) == IF c = "A" THEN "a" ELSE c

\* text[start:end] with Python's treatment of negative and out-of-range bounds
PySlice(text, start, end) ==
    LET n  == Len(text)
        s0 == IF start < 0 THEN Max(start + n, 0) ELSE Min(start, n)
        e0 == IF end < 0 THEN Max(end + n, 0) ELSE Min(end, n)
    IN  IF s0 >= e0 THEN <<>> ELSE SubSeq(text, s0 + 1, e0)

\* str.strip(): drop leading and trailing whitespace
Strip(s) ==
    LET n == Len(s)
    IN  IF \A i \in 1..n : IsSpace(s[i]) THEN <<>>
        ELSE LET lo == CHOOSE i \in 1..n : ~IsSpace(s[i]) /\ \A j \in 1..(i - 1) : IsSpace(s[j])
                 hi == CHOOSE i \in 1..n : ~IsSpace(s[i]) /\ \A j \in (i + 1)..n : IsSpace(s[j])
             IN  SubSeq(s, lo, hi)

-----------------------------------------------------------------------------
(* _chunk_text *)

\* mutant: the window is appended untrimmed
ChunkWindowUntrimmed(text, chunk_size, start) ==
    PySlice(text, start, start + chunk_size)

\* one pass of the while loop body at offset start
ChunkWindow(text, chunk_size, start) ==
    Strip(PySlice(text, start, start + chunk_size))

\* mutant: the window advances by chunk_size, without overlap
ChunkAdvanceNoOverlap(start, chunk_size, overlap) == start + chunk_size

\* line 207: the next value of start
ChunkAdvance(start, chunk_size, overlap) == start + (chunk_size - overlap)

RECURSIVE ChunkLoop(_, _, _, _, _)
ChunkLoop(text, chunk_size, overlap, start, acc) ==
    IF start < Len(text)
    THEN ChunkLoop(text, chunk_size, overlap, ChunkAdvance(start, chunk_size, overlap),
                   Append(acc, ChunkWindow(text, chunk_size, start)))
    ELSE acc

\* _chunk_text(text, chunk_size, overlap), for arguments on which it returns
ChunkText(text, chunk_size, overlap) ==
    ChunkLoop(text, chunk_size, overlap, 0, <<>>)

ChunkSize == 1000
ChunkOverlap == 200

-----------------------------------------------------------------------------
(* _tokenize *)

\* re.findall(r'\w+', text.lower()): the maximal runs of word characters
Tokenize(text) ==
    LET n      == Len(text)
        low    == [i \in 1..n |-> Lower(text[i])]
        starts == {i \in 1..n : IsWord(low[i]) /\ (i = 1 \/ ~IsWord(low[i - 1]))}
        ends   == {j \in 1..n : IsWord(low[j]) /\ (j = n \/ ~IsWord(low[j + 1]))}
        EndOf(i) == CHOOSE j \in ends : j >= i /\ \A e \in ends : e >= i => j <= e
        Nth(k) == CHOOSE i \in starts : Cardinality({x \in starts : x < i}) = k - 1
    IN  [k \in 1..Cardinality(starts) |-> SubSeq(low, Nth(k), EndOf(Nth(k)))]

-----------------------------------------------------------------------------
(* Embedding provider and FAISS IndexFlatL2 *)

\* self.embedding_dim
EmbeddingDim == 384
\* largest coordinate the model's embedding provider produces
MaxCoord == 2

\* embedding_model.encode of one text: a point of the (one-coordinate) model
\* space, a deterministic function of the text
Embed(text) ==
    [dim |-> EmbeddingDim,
     x   |-> Min(MaxCoord, Cardinality({i \in 1..Len(text) : Lower(text[i]) = "a"}))]

\* squared Euclidean distance, the metric of IndexFlatL2
L2Sqr(u, v) == (u.x - v.x) * (u.x - v.x)

\* index.search(query_vector, k): the k nearest as (distance, 0-based position),
\* ascending by distance, equal distances by position
FaissSearch(idx, q, k) ==
    LET n == Len(idx)
        Before(i, j) == \/ L2Sqr(idx[i], q) < L2Sqr(idx[j], q)
                        \/ (L2Sqr(idx[i], q) = L2Sqr(idx[j], q) /\ i < j)
        Rank(i) == Cardinality({j \in 1..n : Before(j, i)}) + 1
        At(r) == CHOOSE i \in 1..n : Rank(i) = r
    IN  [r \in 1..Min(k, n) |-> [dist |-> L2Sqr(idx[At(r)], q), idx |-> At(r) - 1]]

-----------------------------------------------------------------------------
(* rank_bm25.BM25Okapi, in fixed point: scores in thousandths.  The logarithmic
   idf is modelled by the linear N - 2n, which has the same sign, and the
   length normalisation is left out (b = 0). *)

NoBm25 == [built |-> FALSE, corpus |-> <<>>]

\* BM25Okapi(tokenized_chunks)
Bm25Okapi(corpus) == [built |-> TRUE, corpus |-> corpus]

Bm25Vocab(corpus) == UNION {{corpus[i][j] : j \in 1..Len(corpus[i])} : i \in 1..Len(corpus)}

Bm25DocFreq(corpus, w) ==
    Cardinality({i \in 1..Len(corpus) : \E j \in 1..Len(corpus[i]) : corpus[i][j] = w})

RECURSIVE SumOver(_, _)
SumOver(S, f) ==
    IF S = {} THEN 0
    ELSE LET x == CHOOSE y \in S : TRUE IN f[x] + SumOver(S \ {x}, f)

\* idf of a word; a negative idf is replaced by epsilon (1/4) times the average idf
Bm25Idf(corpus, w) ==
    LET vocab  == Bm25Vocab(corpus)
        raw    == [v \in vocab |-> Len(corpus) - 2 * Bm25DocFreq(corpus, v)]
    IN  IF w \notin vocab THEN 0
        ELSE IF raw[w] < 0 THEN SumOver(vocab, raw) \div (4 * Cardinality(vocab))
        ELSE raw[w]

\* bm25.get_scores(tokenized_query): one score per document of the corpus
Bm25GetScores(model, query) ==
    LET corpus == model.corpus
        Tf(i, w) == Cardinality({j \in 1..Len(corpus[i]) : corpus[i][j] = w})
        Term(i, w) == Bm25Idf(corpus, w) * ((5000 * Tf(i, w)) \div (2 * Tf(i, w) + 3))
        RECURSIVE Score(_, _)
        Score(i, k) == IF k = 0 THEN 0 ELSE Term(i, query[k]) + Score(i, k - 1)
    IN  [i \in 1..Len(corpus) |-> Score(i, Len(query))]

-----------------------------------------------------------------------------
(* In-memory state of a DocumentProcessor, as a record *)

\* __init__, lines 28-37: the state before _load_persistent_data
EmptyMem ==
    [index |-> <<>>, chunks |-> <<>>, documents |-> <<>>,
     bm25 |-> NoBm25, tokenized_chunks |-> <<>>]

Mem == [index |-> index, chunks |-> chunks, documents |-> documents,
        bm25 |-> bm25, tokenized_chunks |-> tokenized_chunks]

\* mutant: the tokenized chunks are appended to those of the prior model
BuildBm25IndexAppend(m) ==
    IF m.chunks = <<>> THEN m
    ELSE LET tok == m.tokenized_chunks
                    \o [i \in 1..Len(m.chunks) |-> Tokenize(m.chunks[i].content)]
         IN  [m EXCEPT !.tokenized_chunks = tok, !.bm25 = Bm25Okapi(tok)]

\* mutant: the last chunk is left out of the keyword index
BuildBm25IndexSkipLast(m) ==
    IF m.chunks = <<>> THEN m
    ELSE LET tok == [i \in 1..(Len(m.chunks) - 1) |-> Tokenize(m.chunks[i].content)]
         IN  [m EXCEPT !.tokenized_chunks = tok, !.bm25 = Bm25Okapi(tok)]

\* _build_bm25_index
BuildBm25Index(m) ==
    IF m.chunks = <<>> THEN m
    ELSE LET tok == [i \in 1..Len(m.chunks) |-> Tokenize(m.chunks[i].content)]
         IN  [m EXCEPT !.tokenized_chunks = tok, !.bm25 = Bm25Okapi(tok)]

-----------------------------------------------------------------------------
(* Persistence *)

Absent == [st |-> "absent", data |-> <<>>]
Corrupt == [st |-> "corrupt", data |-> <<>>]
Stored(x) == [st |-> "ok", data |-> x]

EmptyDisk == [index_file |-> Absent, chunks_file |-> Absent,
              metadata_file |-> Absent, bm25_file |-> Absent]

\* an I/O failure of one save: at = 0 is none; otherwise the at-th write fails,
\* leaving that file as it was (how = "intact") or partly written ("corrupt")
NoFail == [at |-> 0, how |-> "intact"]
SaveFailures == {NoFail} \cup [at : 1..4, how : {"intact", "corrupt"}]

\* the file after the k-th write of a save that fails as fail says
WriteArtifact(old, new, k, fail) ==
    IF fail.at = 0 \/ k < fail.at THEN Stored(new)
    ELSE IF k = fail.at /\ fail.how = "corrupt" THEN Corrupt
    ELSE old

\* _save_persistent_data: the disk afterwards
SavePersistentData(m, d, fail) ==
    [index_file    |-> WriteArtifact(d.index_file, m.index, 1, fail),
     chunks_file   |-> WriteArtifact(d.chunks_file, m.chunks, 2, fail),
     metadata_file |-> WriteArtifact(d.metadata_file, m.documents, 3, fail),
     bm25_file     |-> IF m.bm25.built
                       THEN WriteArtifact(d.bm25_file,
                                [bm25 |-> m.bm25, tokenized_chunks |-> m.tokenized_chunks],
                                4, fail)
                       ELSE d.bm25_file]

\* whether a save that fails as fail says wrote everything it had to write
SaveCompletes(m, fail) == fail.at = 0 \/ (fail.at = 4 /\ ~m.bm25.built)

SetIndex(m, x) == [m EXCEPT !.index = x]
SetChunks(m, x) == [m EXCEPT !.chunks = x]
SetDocuments(m, x) == [m EXCEPT !.documents = x]
\* mutant: the tokenized chunks of the artifact are not restored
SetBm25ModelOnly(m, x) == [m EXCEPT !.bm25 = x.bm25]

SetBm25(m, x) == [m EXCEPT !.bm25 = x.bm25, !.tokenized_chunks = x.tokenized_chunks]

\* one "if file.exists(): read" of _load_persistent_data, inside its single
\* try block: s.raised says an earlier read has raised, loaded is the memory
\* after the assignment of what was read
LoadArtifact(s, file, loaded) ==
    IF s.raised \/ file.st = "absent" THEN s
    ELSE IF file.st = "corrupt" THEN [s EXCEPT !.raised = TRUE]
    ELSE [s EXCEPT !.m = loaded]

\* mutant: what a failed read raised leaves _load_persistent_data
LoadPropagatesRaised(s) == s.raised

\* lines 78-79: `except Exception` catches whatever a read raised, so nothing
\* propagates to the constructor
LoadPropagates(s) == FALSE

\* _load_persistent_data: the memory afterwards, and whether a read raised
LoadRun(m, d) ==
    LET s0 == [m |-> m, raised |-> FALSE]
        s1 == LoadArtifact(s0, d.index_file, SetIndex(s0.m, d.index_file.data))
        s2 == LoadArtifact(s1, d.chunks_file, SetChunks(s1.m, d.chunks_file.data))
        s3 == LoadArtifact(s2, d.metadata_file, SetDocuments(s2.m, d.metadata_file.data))
    IN  LoadArtifact(s3, d.bm25_file, SetBm25(s3.m, d.bm25_file.data))

\* _load_persistent_data: the memory afterwards
LoadPersistentData(m, d) == LoadRun(m, d).m

\* mutant: an I/O failure of a write leaves _save_persistent_data
SavePropagatesFailure(fail) == fail.at # 0

\* lines 101-102: `except Exception` catches whatever a write raised
SavePropagates(fail) == FALSE

\* DocumentProcessor(): memory and disk after construction over disk d; raised
\* says that an exception left the constructor and no processor exists
Construct(d, fail) ==
    LET s  == LoadRun(EmptyMem, d)
        m0 == s.m
    IN  IF LoadPropagates(s)
        THEN [m |-> m0, disk |-> d, saved |-> FALSE, saveOk |-> FALSE, raised |-> TRUE]
        ELSE IF Len(m0.chunks) > 0 /\ ~m0.bm25.built
        THEN LET m1 == BuildBm25Index(m0)
             IN  [m |-> m1, disk |-> SavePersistentData(m1, d, fail), saved |-> TRUE,
                  saveOk |-> SaveCompletes(m1, fail), raised |-> SavePropagates(fail)]
        ELSE [m |-> m0, disk |-> d, saved |-> FALSE, saveOk |-> FALSE, raised |-> FALSE]

-----------------------------------------------------------------------------
(* Text extraction and chunking of an uploaded PDF *)

\* hashlib.md5(filename.encode()).hexdigest()
DocId(filename) == <<"md5", filename>>

\* f"{doc_id}_page{page_num}_chunk{chunk_idx}"
ChunkId(doc_id, page_num, chunk_idx) == <<doc_id, "page", page_num, "chunk", chunk_idx>>

\* mutant: pages are numbered from 0
PageChunksZeroBased(text, page_num, doc_id, filename) ==
    IF Strip(text) = <<>> THEN <<>>
    ELSE LET page_chunks == ChunkText(text, ChunkSize, ChunkOverlap)
         IN  [k \in 1..Len(page_chunks) |->
                 [id          |-> ChunkId(doc_id, page_num - 1, k - 1),
                  document_id |-> doc_id,
                  filename    |-> filename,
                  page_number |-> page_num - 1,
                  chunk_index |-> k - 1,
                  content     |-> page_chunks[k]]]

\* mutant: a page is chunked whatever its text
PageChunksUnguarded(text, page_num, doc_id, filename) ==
    LET page_chunks == ChunkText(text, ChunkSize, ChunkOverlap)
    IN  [k \in 1..Len(page_chunks) |->
            [id          |-> ChunkId(doc_id, page_num, k - 1),
             document_id |-> doc_id,
             filename    |-> filename,
             page_number |-> page_num,
             chunk_index |-> k - 1,
             content     |-> page_chunks[k]]]

\* the chunk records of one page (lines 178-191)
PageChunks(text, page_num, doc_id, filename) ==
    IF Strip(text) = <<>> THEN <<>>
    ELSE LET page_chunks == ChunkText(text, ChunkSize, ChunkOverlap)
         IN  [k \in 1..Len(page_chunks) |->
                 [id          |-> ChunkId(doc_id, page_num, k - 1),
                  document_id |-> doc_id,
                  filename    |-> filename,
                  page_number |-> page_num,
                  chunk_index |-> k - 1,
                  content     |-> page_chunks[k]]]

\* _extract_and_chunk_pdf: pages are [ok, text]; a page with ok = FALSE makes
\* the reader raise, which ends the loop and keeps the chunks made so far
RECURSIVE ExtractPages(_, _, _, _, _)
ExtractPages(pages, p, doc_id, filename, acc) ==
    IF p > Len(pages) \/ ~pages[p].ok THEN acc
    ELSE ExtractPages(pages, p + 1, doc_id, filename,
                      acc \o PageChunks(pages[p].text, p, doc_id, filename))

ExtractAndChunkPdf(pages, doc_id, filename) ==
    ExtractPages(pages, 1, doc_id, filename, <<>>)

-----------------------------------------------------------------------------
(* search_documents *)

NoFilters == [document |-> "", page_range |-> <<>>, min_confidence |-> 0]

\* line 251
VectorScore(dist) == 1000 \div (1 + dist)

\* mutant: a position the keyword index does not cover gets its last score
Bm25ScoreAtClamped(bm25_scores, idx) ==
    IF Len(bm25_scores) > 0 THEN bm25_scores[Min(idx + 1, Len(bm25_scores))] ELSE 0

\* line 252
Bm25ScoreAt(bm25_scores, idx) ==
    IF Len(bm25_scores) > 0 /\ idx < Len(bm25_scores) THEN bm25_scores[idx + 1] ELSE 0

\* mutant: a negative keyword score is combined like a positive one
CombinedScoreSigned(vector_score, bm25_score) ==
    6 * vector_score + 4 * (bm25_score \div 10)

\* mutant: the vector score is left out of the combination
CombinedScoreKeywordOnly(vector_score, bm25_score) ==
    4 * (IF bm25_score > 0 THEN bm25_score \div 10 ELSE 0)

\* line 255
CombinedScore(vector_score, bm25_score) ==
    6 * vector_score + 4 * (IF bm25_score > 0 THEN bm25_score \div 10 ELSE 0)

\* lines 246-262: one entry per candidate whose position is a chunk position,
\* in retrieval order
CombinedResults(m, cand, bm25_scores) ==
    LET keep == SelectSeq(cand, LAMBDA c : c.idx < Len(m.chunks))
    IN  [r \in 1..Len(keep) |->
            LET vs == VectorScore(keep[r].dist)
                bs == Bm25ScoreAt(bm25_scores, keep[r].idx)
            IN  [idx |-> keep[r].idx, chunk |-> m.chunks[keep[r].idx + 1],
                 score |-> CombinedScore(vs, bs), vector_score |-> vs, bm25_score |-> bs]]

\* mutant: equal scores come out in reverse retrieval order
SortByScoreTiesReversed(entries) ==
    LET n == Len(entries)
        Before(i, j) == \/ entries[i].score > entries[j].score
                        \/ (entries[i].score = entries[j].score /\ i > j)
        Rank(i) == Cardinality({j \in 1..n : Before(j, i)}) + 1
    IN  [r \in 1..n |-> entries[CHOOSE i \in 1..n : Rank(i) = r]]

\* sorted(..., key=score, reverse=True): stable, descending
SortByScore(entries) ==
    LET n == Len(entries)
        Before(i, j) == \/ entries[i].score > entries[j].score
                        \/ (entries[i].score = entries[j].score /\ i < j)
        Rank(i) == Cardinality({j \in 1..n : Before(j, i)}) + 1
    IN  [r \in 1..n |-> entries[CHOOSE i \in 1..n : Rank(i) = r]]

\* mutant: the document filter compares nothing
DocumentFilterOff(filters, chunk) == FALSE

\* line 273-275
DocumentFilterRejects(filters, chunk) ==
    filters.document # "" /\ chunk.filename # filters.document

\* mutant: the bounds of the page range are excluded
PageFilterRejectsExclusive(filters, chunk) ==
    /\ filters.page_range # <<>>
    /\ ~(filters.page_range[1] < chunk.page_number /\ chunk.page_number < filters.page_range[2])

\* lines 278-282
PageFilterRejects(filters, chunk) ==
    /\ filters.page_range # <<>>
    /\ ~(filters.page_range[1] <= chunk.page_number /\ chunk.page_number <= filters.page_range[2])

\* mutant: a score equal to the threshold is rejected
ConfidenceFilterRejectsEqual(filters, entry) ==
    filters.min_confidence # 0 /\ entry.score <= filters.min_confidence

\* lines 285-289
ConfidenceFilterRejects(filters, entry) ==
    filters.min_confidence # 0 /\ entry.score < filters.min_confidence

Annotated(entry) ==
    [id |-> entry.chunk.id, document_id |-> entry.chunk.document_id,
     filename |-> entry.chunk.filename, page_number |-> entry.chunk.page_number,
     chunk_index |-> entry.chunk.chunk_index, content |-> entry.chunk.content,
     relevance_score |-> entry.score, vector_score |-> entry.vector_score,
     bm25_score |-> entry.bm25_score, position |-> entry.idx]

\* mutant: the loop goes on after top_k results
RECURSIVE FilterWalkNoBreak(_, _, _, _, _)
FilterWalkNoBreak(sorted, i, top_k, filters, acc) ==
    IF i > Len(sorted) \/ i > top_k * 2 THEN acc
    ELSE IF \/ DocumentFilterRejects(filters, sorted[i].chunk)
            \/ PageFilterRejects(filters, sorted[i].chunk)
            \/ ConfidenceFilterRejects(filters, sorted[i])
         THEN FilterWalkNoBreak(sorted, i + 1, top_k, filters, acc)
    ELSE FilterWalkNoBreak(sorted, i + 1, top_k, filters, Append(acc, Annotated(sorted[i])))

\* mutant: a rejected candidate ends the loop
RECURSIVE FilterWalkStopAtReject(_, _, _, _, _)
FilterWalkStopAtReject(sorted, i, top_k, filters, acc) ==
    IF i > Len(sorted) \/ i > top_k * 2 THEN acc
    ELSE IF \/ DocumentFilterRejects(filters, sorted[i].chunk)
            \/ PageFilterRejects(filters, sorted[i].chunk)
            \/ ConfidenceFilterRejects(filters, sorted[i])
         THEN acc
    ELSE LET acc2 == Append(acc, Annotated(sorted[i]))
         IN  IF Len(acc2) >= top_k THEN acc2
             ELSE FilterWalkStopAtReject(sorted, i + 1, top_k, filters, acc2)

\* mutant: the loop runs over sorted_results[:top_k]
RECURSIVE FilterWalkNarrow(_, _, _, _, _)
FilterWalkNarrow(sorted, i, top_k, filters, acc) ==
    IF i > Len(sorted) \/ i > top_k THEN acc
    ELSE IF \/ DocumentFilterRejects(filters, sorted[i].chunk)
            \/ PageFilterRejects(filters, sorted[i].chunk)
            \/ ConfidenceFilterRejects(filters, sorted[i])
         THEN FilterWalkNarrow(sorted, i + 1, top_k, filters, acc)
    ELSE LET acc2 == Append(acc, Annotated(sorted[i]))
         IN  IF Len(acc2) >= top_k THEN acc2
             ELSE FilterWalkNarrow(sorted, i + 1, top_k, filters, acc2)

\* the loop of lines 268-297 over sorted_results[:top_k * 2], from entry i on
RECURSIVE FilterWalk(_, _, _, _, _)
FilterWalk(sorted, i, top_k, filters, acc) ==
    IF i > Len(sorted) \/ i > top_k * 2 THEN acc
    ELSE IF \/ DocumentFilterRejects(filters, sorted[i].chunk)
            \/ PageFilterRejects(filters, sorted[i].chunk)
            \/ ConfidenceFilterRejects(filters, sorted[i])
         THEN FilterWalk(sorted, i + 1, top_k, filters, acc)
    ELSE LET acc2 == Append(acc, Annotated(sorted[i]))
         IN  IF Len(acc2) >= top_k THEN acc2
             ELSE FilterWalk(sorted, i + 1, top_k, filters, acc2)

\* mutant: the annotations are assigned to the stored dict itself
ChunkCopyAliased(stored, annotated) ==
    [f \in DOMAIN stored \cup {"relevance_score", "vector_score", "bm25_score"} |->
        IF f \in DOMAIN stored THEN stored[f] ELSE annotated[f]]

\* lines 270, 291-293: chunk is data['chunk'].copy(), a new dict, and the
\* three annotations are assigned to it; this is the stored dict afterwards
ChunkCopy(stored, annotated) == stored

\* self.chunks after the filter loop returned results
ChunksAfterSearch(stored_chunks, results) ==
    [i \in 1..Len(stored_chunks) |->
        IF \E r \in 1..Len(results) : results[r].position = i - 1
        THEN ChunkCopy(stored_chunks[i],
                       results[CHOOSE r \in 1..Len(results) : results[r].position = i - 1])
        ELSE stored_chunks[i]]

\* mutant: no early return on an empty index
SearchRunUnguarded(m, query, top_k, filters) ==
    LET cand == FaissSearch(m.index, Embed(query), Min(top_k * 2, Len(m.index)))
        bm25_scores == IF m.bm25.built
                       THEN Bm25GetScores(m.bm25, Tokenize(query)) ELSE <<>>
        sorted == SortByScore(CombinedResults(m, cand, bm25_scores))
        results == FilterWalk(sorted, 1, top_k, filters, <<>>)
    IN  [results |-> results, used |-> TRUE,
         chunks |-> ChunksAfterSearch(m.chunks, results)]

\* what one search_documents call does: used says whether the embedding
\* provider and the keyword index were consulted, chunks is self.chunks
\* after the call
SearchRun(m, query, top_k, filters) ==
    IF Len(m.index) = 0 THEN [results |-> <<>>, used |-> FALSE, chunks |-> m.chunks]
    ELSE LET cand == FaissSearch(m.index, Embed(query), Min(top_k * 2, Len(m.index)))
             bm25_scores == IF m.bm25.built
                            THEN Bm25GetScores(m.bm25, Tokenize(query)) ELSE <<>>
             sorted == SortByScore(CombinedResults(m, cand, bm25_scores))
             results == FilterWalk(sorted, 1, top_k, filters, <<>>)
         IN  [results |-> results, used |-> TRUE,
              chunks |-> ChunksAfterSearch(m.chunks, results)]

SearchDocuments(m, query, top_k, filters) == SearchRun(m, query, top_k, filters).results

-----------------------------------------------------------------------------
(* Inputs of the model *)

Page(text) == [ok |-> TRUE, text |-> text]
BadPage == [ok |-> FALSE, text |-> <<>>]

\* a page just longer than one stride: it is cut into two chunks
LongPage == Rep("a", ChunkSize - ChunkOverlap) \o <<"b">>

Filenames == {"A.pdf", "B.pdf"}

\* the files a client uploads
Uploads ==
    { [filename |-> "A.pdf", pages |-> <<Page(<<" ">>)>>],
      [filename |-> "B.pdf", pages |-> <<BadPage>>],
      [filename |-> "A.pdf", pages |-> <<Page(<<"a", " ", "b">>)>>],
      [filename |-> "A.pdf", pages |-> <<Page(<<"b", ".">>), Page(<<"A", " ", "a">>)>>],
      [filename |-> "B.pdf", pages |-> <<Page(<<"a">>), BadPage, Page(<<"b">>)>>],
      [filename |-> "B.pdf", pages |-> <<Page(<<"b">>), Page(<<"a", ".", "a">>)>>] }

\* the files uploaded in the behaviours that end with a search
QueryUploads ==
    {f \in Uploads : f.pages # <<Page(<<"a", " ", "b">>)>> /\ f.pages # <<BadPage>>}

EmbedOutcomes == {"ok", "encode_raises", "bad_dim"}

Queries == { <<"a">>, <<"b">>, <<"A", " ", "a">> }
TopKs == {1, 2}
\* the filters argument: None is NoFilters; min_confidence in ten-thousandths
FilterSets ==
    { NoFilters,
      [NoFilters EXCEPT !.document = "A.pdf"],
      [NoFilters EXCEPT !.document = "B.pdf"],
      [NoFilters EXCEPT !.page_range = <<2, 2>>],
      [NoFilters EXCEPT !.page_range = <<1, 2>>],
      [NoFilters EXCEPT !.min_confidence = 6000],
      [document |-> "A.pdf", page_range |-> <<1, 1>>, min_confidence |-> 3000] }

-----------------------------------------------------------------------------
(* The processor: construction, ingestion, search *)

NoCall == [op |-> "construct", status |-> "ok", saved |-> FALSE,
           filename |-> "", ret |-> <<>>, query |-> <<>>, top_k |-> 0,
           filters |-> NoFilters, used |-> FALSE]

IdleCt == [text |-> <<>>, chunk_size |-> 0, overlap |-> 0, start |-> 0,
           chunks |-> <<>>, offsets |-> <<>>, beyond |-> 0, pc |-> "idle"]

\* no generate_answer call, no extraction call, no conversation
IdleRag == [pc |-> "idle"]
IdleEx == [pc |-> "idle"]
IdleConv == [pc |-> "idle"]

IdleSc == [pc |-> "idle", cand |-> <<>>, bm25_scores |-> <<>>,
           combined_results |-> <<>>, sorted_results |-> <<>>]

\* vector i is the embedding of chunk i, as far as both exist
VectorsAligned(m) ==
    \A i \in 1..Min(Len(m.index), Len(m.chunks)) : m.index[i] = Embed(m.chunks[i].content)

\* tokenized entry i is the tokenization of chunk i, one entry per chunk
TokensAligned(m) ==
    /\ Len(m.tokenized_chunks) = Len(m.chunks)
    /\ \A i \in 1..Len(m.chunks) : m.tokenized_chunks[i] = Tokenize(m.chunks[i].content)

\* what a construction left in memory: vectors minus chunks, and whether the
\* three sequences correspond position by position
BootOf(m) ==
    [skew |-> Len(m.index) - Len(m.chunks),
     aligned |-> Len(m.index) = Len(m.chunks) /\ VectorsAligned(m) /\ TokensAligned(m)]

\* the state after DocumentProcessor() over an empty upload directory
InitProcessor ==
    /\ index = <<>>
    /\ chunks = <<>>
    /\ documents = <<>>
    /\ bm25 = NoBm25
    /\ tokenized_chunks = <<>>
    /\ disk = EmptyDisk
    /\ uploads = {}
    /\ last = NoCall
    /\ rag = IdleRag
    /\ ex = IdleEx
    /\ conv = IdleConv
    /\ saveStatus = "none"
    /\ ncalls = 0
    /\ nfaults = 0
    /\ boot = BootOf(EmptyMem)

SetMem(m) ==
    /\ index' = m.index
    /\ chunks' = m.chunks
    /\ documents' = m.documents
    /\ bm25' = m.bm25
    /\ tokenized_chunks' = m.tokenized_chunks

\* the vectors index.add appends (lines 134-140)
Embeddings(text_chunks) == [i \in 1..Len(text_chunks) |-> Embed(text_chunks[i].content)]

\* mutant: the batch is inserted in front of the stored vectors
IndexAddFront(m, embeddings) == [m EXCEPT !.index = embeddings \o m.index]

\* mutant: only the first vector of the batch is added
IndexAddFirstOnly(m, embeddings) == [m EXCEPT !.index = Append(m.index, embeddings[1])]

\* line 140
IndexAdd(m, embeddings) == [m EXCEPT !.index = m.index \o embeddings]

\* mutant: only the last chunk of the document is stored
ChunksExtendLast(m, text_chunks) ==
    [m EXCEPT !.chunks = Append(m.chunks, text_chunks[Len(text_chunks)])]

\* mutant: the new chunks are put in front of the stored ones
ChunksExtendFront(m, text_chunks) == [m EXCEPT !.chunks = text_chunks \o m.chunks]

\* line 144
ChunksExtend(m, text_chunks) == [m EXCEPT !.chunks = m.chunks \o text_chunks]

\* mutant: no record is written
RecordDocumentSkipped(m, file, text_chunks) == m

\* mutant: the record of a document already known is left as it is
RecordDocumentKeepFirst(m, file, text_chunks) ==
    LET doc_id == DocId(file.filename)
        rec == [filename |-> file.filename, path |-> <<"upload_dir", file.filename>>,
                chunks_count |-> Len(text_chunks)]
    IN  [m EXCEPT !.documents =
            [d \in DOMAIN m.documents \cup {doc_id} |->
                IF d \in DOMAIN m.documents THEN m.documents[d] ELSE rec]]

\* lines 151-155
RecordDocument(m, file, text_chunks) ==
    LET doc_id == DocId(file.filename)
        rec == [filename |-> file.filename, path |-> <<"upload_dir", file.filename>>,
                chunks_count |-> Len(text_chunks)]
    IN  [m EXCEPT !.documents =
            [d \in DOMAIN m.documents \cup {doc_id} |->
                IF d = doc_id THEN rec ELSE m.documents[d]]]

\* lines 137-155 on memory: add, extend, rebuild, record
IngestMem(m, file, text_chunks) ==
    RecordDocument(
        BuildBm25Index(ChunksExtend(IndexAdd(m, Embeddings(text_chunks)), text_chunks)),
        file, text_chunks)

\* mutant: the chunks are stored before the embeddings are generated and added
AbortedMemExtended(m, text_chunks) == [m EXCEPT !.chunks = m.chunks \o text_chunks]

\* the memory left when encode (line 135) or index.add (line 140) raises:
\* neither has changed anything
AbortedMem(m, text_chunks) == m

\* mutant: a record with no chunks is written for the file
NoTextMemRecorded(m, file) == RecordDocument(m, file, <<>>)

\* lines 123-130: memory when the call returns because no chunk was extracted
NoTextMem(m, file) == m

\* the return value of lines 125-130
NoTextResult(file) ==
    [document_id |-> DocId(file.filename), filename |-> file.filename,
     chunks_count |-> 0, error |-> "No text extracted from PDF"]

\* the return value of lines 162-166
SuccessResult(file, text_chunks) ==
    [document_id |-> DocId(file.filename), filename |-> file.filename,
     chunks_count |-> Len(text_chunks)]

\* a save failure is one of the at most MaxFaults failures of the behaviour
Faulted(fail) ==
    IF fail = NoFail THEN nfaults' = nfaults
    ELSE nfaults < MaxFaults /\ nfaults' = nfaults + 1

\* process_document, run to completion with no other call interleaved, on a
\* file from which text_chunks are extracted
ProcessDocument(file, text_chunks, outcome, fail) ==
    LET call == [NoCall EXCEPT !.op = "ingest", !.filename = file.filename]
    IN  /\ last.op # "search"
        /\ ncalls' = ncalls + 1
        /\ uploads' = uploads \cup {file.filename}
        /\ UNCHANGED <<boot, ct, tasks, mode, sc, appvars>>
        /\ IF text_chunks = <<>>
           THEN /\ outcome = "ok" /\ fail = NoFail
                /\ last' = [call EXCEPT !.status = "error", !.ret = NoTextResult(file)]
                /\ SetMem(NoTextMem(Mem, file))
                /\ UNCHANGED <<disk, saveStatus, nfaults>>
           ELSE IF outcome # "ok"
           THEN /\ fail = NoFail
                /\ SetMem(AbortedMem(Mem, text_chunks))
                /\ last' = [call EXCEPT !.status = "raised"]
                /\ UNCHANGED <<disk, saveStatus, nfaults>>
           ELSE LET m == IngestMem(Mem, file, text_chunks)
                IN  /\ SetMem(m)
                    /\ Faulted(fail)
                    /\ disk' = SavePersistentData(m, disk, fail)
                    /\ saveStatus' = IF SaveCompletes(m, fail) THEN "ok" ELSE "failed"
                    /\ last' = IF SavePropagates(fail)
                               THEN [call EXCEPT !.status = "raised", !.saved = TRUE]
                               ELSE [call EXCEPT !.status = "ok", !.saved = TRUE,
                                        !.ret = SuccessResult(file, text_chunks)]

IngestCall(files) == \E file \in files :
    LET text_chunks == ExtractAndChunkPdf(file.pages, DocId(file.filename), file.filename)
    IN  \E outcome \in EmbedOutcomes, fail \in SaveFailures :
            ProcessDocument(file, text_chunks, outcome, fail)

\* the process ends and a new DocumentProcessor() is constructed over the
\* same upload directory
RestartCall == \E fail \in SaveFailures :
    LET c == Construct(disk, fail)
    IN  /\ last.op # "search"
        /\ ncalls' = ncalls + 1
        /\ (~c.saved => fail = NoFail)
        /\ Faulted(fail)
        /\ SetMem(c.m)
        /\ disk' = c.disk
        /\ saveStatus' = IF ~c.saved THEN "none" ELSE IF c.saveOk THEN "ok" ELSE "failed"
        /\ last' = [NoCall EXCEPT !.saved = c.saved,
                                   !.status = IF c.raised THEN "raised" ELSE "ok"]
        /\ boot' = BootOf(c.m)
        /\ UNCHANGED <<uploads, ct, mode, sc, appvars>>

Ingest == ncalls < MaxCalls /\ IngestCall(Uploads)

Restart == ncalls < MaxCalls /\ RestartCall /\ UNCHANGED tasks

Init ==
    /\ InitProcessor
    /\ ct = IdleCt
    /\ sc = IdleSc
    /\ tasks = <<>>
    /\ mode = "serial"

Next == Ingest \/ Restart

\* serial ingestion and restarts
Spec == Init /\ [][Next]_vars

-----------------------------------------------------------------------------
(* Ingestion of files with a page longer than one stride of the chunker *)

\* process_document calls in these behaviours
MaxPageCalls == 2

\* the files uploaded in these behaviours, each under its own name
PageUploads ==
    { [filename |-> "A.pdf", pages |-> <<Page(LongPage), Page(<<"b">>)>>],
      [filename |-> "B.pdf", pages |-> <<Page(<<"a">>), Page(<<" ">>), Page(LongPage)>>] }

IngestP == ncalls < MaxPageCalls /\ IngestCall(PageUploads)

NextPages == IngestP

SpecPages == Init /\ [][NextPages]_vars

-----------------------------------------------------------------------------
(* Behaviours that end with one search_documents call.  The call changes
   nothing but last, so a behaviour is followed up to its first search. *)

\* search_documents(query, top_k, filters)
Search == \E query \in Queries, top_k \in TopKs, filters \in FilterSets :
    LET run == SearchRun(Mem, query, top_k, filters)
    IN  /\ last.op # "search"
        /\ last' = [NoCall EXCEPT !.op = "search", !.query = query, !.top_k = top_k,
                       !.filters = filters, !.ret = run.results, !.used = run.used]
        /\ chunks' = run.chunks
        /\ UNCHANGED <<index, documents, bm25, tokenized_chunks, disk, uploads,
                       saveStatus, ncalls, nfaults, boot, ct, tasks, mode, sc, appvars>>

IngestQ == ncalls < MaxQueryCalls /\ IngestCall(QueryUploads)

RestartQ == ncalls < MaxQueryCalls /\ RestartCall /\ UNCHANGED tasks

NextSearch == IngestQ \/ RestartQ \/ Search

SpecSearch == Init /\ [][NextSearch]_vars

-----------------------------------------------------------------------------
(* Behaviours of successful, completely saved ingestions that end with one
   search_documents call: the index grows beyond 2 * top_k vectors. *)

\* process_document calls in these behaviours
MaxRankCalls == 3

IngestR ==
    /\ ncalls < MaxRankCalls
    /\ IngestCall(Uploads)
    /\ last'.status = "ok"
    /\ nfaults' = nfaults

NextRank == IngestR \/ Search

SpecRank == Init /\ [][NextRank]_vars

-----------------------------------------------------------------------------
(* One run of the scoring loop and the sort of search_documents (lines
   246-265) over what index.search and bm25.get_scores returned.  Distances
   are whole numbers; line 251 rounds the quotient to the resolution of the
   scores (float32 in the program, thousandths here). *)

\* largest distance index.search returns in these runs
MaxDist == 36

\* the keyword scores bm25.get_scores returns in these runs, in thousandths
Bm25Values == {0, 2500}

\* index.search has returned the positions of two chunks, nearest first, and
\* bm25.get_scores a score for each
InitScore ==
    /\ InitProcessor
    /\ ct = IdleCt
    /\ tasks = <<>>
    /\ mode = "serial"
    /\ \E d1 \in 0..MaxDist, d2 \in 0..MaxDist, first \in {0, 1},
          b1 \in Bm25Values, b2 \in Bm25Values :
          /\ d1 <= d2
          /\ sc = [IdleSc EXCEPT
                     !.pc = "loop",
                     !.cand = <<[dist |-> d1, idx |-> first], [dist |-> d2, idx |-> 1 - first]>>,
                     !.bm25_scores = <<b1, b2>>]

\* the chunks the scoring runs look up (self.chunks)
ScoreChunks ==
    LET file == [filename |-> "B.pdf", pages |-> <<Page(<<"b">>), Page(<<"a", ".", "a">>)>>]
    IN  ExtractAndChunkPdf(file.pages, DocId(file.filename), file.filename)

\* lines 246-262
ScoreCandidates ==
    /\ sc.pc = "loop"
    /\ sc' = [sc EXCEPT !.pc = "scored",
                        !.combined_results =
                            CombinedResults([chunks |-> ScoreChunks], sc.cand, sc.bm25_scores)]
    /\ UNCHANGED <<memvars, disk, uploads, last, saveStatus, ncalls, nfaults, boot,
                   ct, tasks, mode, appvars>>

\* line 265
ScoreSort ==
    /\ sc.pc = "scored"
    /\ sc' = [sc EXCEPT !.pc = "sorted",
                        !.sorted_results = SortByScore(sc.combined_results)]
    /\ UNCHANGED <<memvars, disk, uploads, last, saveStatus, ncalls, nfaults, boot,
                   ct, tasks, mode, appvars>>

NextScore == ScoreCandidates \/ ScoreSort

SpecScore == InitScore /\ [][NextScore]_vars

-----------------------------------------------------------------------------
(* One run of _chunk_text, one loop iteration per step *)

\* all texts over the alphabet of at most n characters
RECURSIVE TextsUpTo(_)
TextsUpTo(n) ==
    IF n = 0 THEN {<<>>}
    ELSE LET shorter == TextsUpTo(n - 1)
         IN  shorter \cup {Append(t, c) : t \in {u \in shorter : Len(u) = n - 1}, c \in Alphabet}

\* a page of one stride of letters and a space after them
TrailingSpacePage == Rep("a", ChunkSize - ChunkOverlap) \o <<" ">>

\* the arguments of the enumerated runs, and the runs on 2500 times "A" and
\* on a page that ends in a space with the arguments of line 180
ChunkerInputs ==
    [text : TextsUpTo(MaxTextLen), chunk_size : 1..MaxChunkArg, overlap : 0..MaxChunkArg]
    \cup {[text |-> Rep("A", 2500), chunk_size |-> ChunkSize, overlap |-> ChunkOverlap],
          [text |-> TrailingSpacePage, chunk_size |-> ChunkSize, overlap |-> ChunkOverlap]}

InitChunker ==
    /\ InitProcessor
    /\ sc = IdleSc
    /\ tasks = <<>>
    /\ mode = "serial"
    /\ \E in \in ChunkerInputs :
          ct = [text |-> in.text, chunk_size |-> in.chunk_size, overlap |-> in.overlap,
                start |-> 0, chunks |-> <<>>, offsets |-> <<>>, beyond |-> 0,
                pc |-> "loop"]

\* lines 203-207: one iteration of the while loop.  The first MaxWindows
\* iterations are recorded; of a loop whose start does not grow, and which
\* therefore goes on for ever, the later iterations only flip beyond
ChunkStep ==
    /\ ct.pc = "loop"
    /\ ct.start < Len(ct.text)
    /\ IF Len(ct.chunks) < MaxWindows
       THEN ct' = [ct EXCEPT
                      !.chunks = Append(@, ChunkWindow(ct.text, ct.chunk_size, ct.start)),
                      !.offsets = Append(@, ct.start),
                      !.start = ChunkAdvance(ct.start, ct.chunk_size, ct.overlap)]
       ELSE /\ ChunkAdvance(ct.start, ct.chunk_size, ct.overlap) <= ct.start
            /\ ct' = [ct EXCEPT !.beyond = 1 - @]
    /\ UNCHANGED <<memvars, disk, uploads, last, saveStatus, ncalls, nfaults, boot,
                   tasks, mode, sc, appvars>>

\* lines 203, 209: the loop condition fails and the chunks are returned
ChunkReturn ==
    /\ ct.pc = "loop"
    /\ ~(ct.start < Len(ct.text))
    /\ ct' = [ct EXCEPT !.pc = "done"]
    /\ UNCHANGED <<memvars, disk, uploads, last, saveStatus, ncalls, nfaults, boot,
                   tasks, mode, sc, appvars>>

NextChunker == ChunkStep \/ ChunkReturn

SpecChunker == InitChunker /\ [][NextChunker]_vars

\* the same runs, in which the interpreter keeps executing the loop
SpecChunkerFair == SpecChunker /\ WF_vars(NextChunker)

-----------------------------------------------------------------------------
(* process_document calls whose steps may interleave: each task is one call,
   taken through lines 106-135, 140, 144, 148, 151-155 and 159 in turn.  In
   mode "serial" the serving layer starts a call only when no other is under
   way.  In mode "cooperative" the calls are coroutines of one event loop: a
   call is suspended only in its awaits (lines 110-112, the upload written in
   one step), and while a call runs between its last await and its return no
   other call takes a step. *)

TaskIds == {1, 2}

\* the files uploaded by the tasks
TaskUploads ==
    {f \in Uploads : f.pages \in { <<Page(<<" ">>)>>,
                                   <<Page(<<"b", ".">>), Page(<<"A", " ", "a">>)>>,
                                   <<Page(<<"a">>), BadPage, Page(<<"b">>)>> }}

\* saves counts the _save_persistent_data invocations of the call
IdleTask == [pc |-> "idle", file |-> [filename |-> "", pages |-> <<>>],
             text_chunks |-> <<>>, embeddings |-> <<>>, outcome |-> "ok",
             status |-> "none", saves |-> 0]

InProgress(t) == tasks[t].pc \notin {"idle", "done"}

InitTasks ==
    /\ InitProcessor
    /\ ct = IdleCt
    /\ sc = IdleSc
    /\ tasks = [t \in TaskIds |-> IdleTask]
    /\ mode \in {"serial", "unserialized", "cooperative"}

TaskFrame == UNCHANGED <<boot, ct, mode, ncalls, sc, appvars>>

Finish(t, status, saved) ==
    /\ tasks' = [tasks EXCEPT ![t].pc = "done", ![t].status = status,
                              ![t].saves = IF saved THEN @ + 1 ELSE @]
    /\ last' = [NoCall EXCEPT !.op = "ingest", !.filename = tasks[t].file.filename,
                   !.status = status, !.saved = saved,
                   !.ret = IF status = "ok"
                           THEN SuccessResult(tasks[t].file, tasks[t].text_chunks)
                           ELSE IF status = "error" THEN NoTextResult(tasks[t].file)
                           ELSE <<>>]

\* the steps of a call after its last await: lines 140, 144, 148, 151-155, 159
MutationSteps == {"add", "extend", "build", "record", "save"}

\* mutant: a call can be suspended at every step
InSyncNever(t) == FALSE

\* the call runs between its last await (line 112) and its return
InSync(t) == tasks[t].pc \in MutationSteps

\* the event loop lets call t take a step
Scheduled(t) == mode = "cooperative" => \A u \in TaskIds \ {t} : ~InSync(u)

\* lines 116-135 of call t on the stored upload file: extract and chunk,
\* generate embeddings
TExtract(t, file, outcome) ==
    LET text_chunks == ExtractAndChunkPdf(file.pages, DocId(file.filename), file.filename)
        started == [tasks EXCEPT ![t].file = file, ![t].text_chunks = text_chunks,
                                 ![t].outcome = outcome]
    IN  /\ UNCHANGED <<memvars, disk, saveStatus, nfaults>>
        /\ TaskFrame
        /\ IF text_chunks = <<>>
           THEN /\ outcome = "ok"
                /\ tasks' = [started EXCEPT ![t].pc = "done", ![t].status = "error"]
                /\ last' = [NoCall EXCEPT !.op = "ingest", !.filename = file.filename,
                               !.status = "error", !.ret = NoTextResult(file)]
           ELSE IF outcome = "encode_raises"
           THEN /\ tasks' = [started EXCEPT ![t].pc = "done", ![t].status = "raised"]
                /\ last' = [NoCall EXCEPT !.op = "ingest", !.filename = file.filename,
                               !.status = "raised"]
           ELSE /\ tasks' = [started EXCEPT ![t].pc = "add",
                                            ![t].embeddings = Embeddings(text_chunks)]
                /\ last' = last

\* lines 106-135: store the upload, extract and chunk, generate embeddings
TBegin(t) == \E file \in TaskUploads, outcome \in EmbedOutcomes :
    /\ tasks[t].pc = "idle"
    /\ mode # "cooperative"
    /\ mode = "serial" => \A u \in TaskIds : ~InProgress(u)
    /\ uploads' = uploads \cup {file.filename}
    /\ TExtract(t, file, outcome)

\* lines 106-112 of a coroutine: the upload is written under its filename and
\* the call is suspended; a suspended call that wrote the same path will read
\* this upload back
TAwait(t) == \E file \in TaskUploads :
    /\ tasks[t].pc = "idle"
    /\ mode = "cooperative"
    /\ Scheduled(t)
    /\ uploads' = uploads \cup {file.filename}
    /\ tasks' = [u \in TaskIds |->
                    IF u = t THEN [tasks[u] EXCEPT !.pc = "await", !.file = file]
                    ELSE IF tasks[u].pc = "await" /\ tasks[u].file.filename = file.filename
                         THEN [tasks[u] EXCEPT !.file = file]
                    ELSE tasks[u]]
    /\ UNCHANGED <<memvars, disk, saveStatus, nfaults, last>>
    /\ TaskFrame

\* lines 114-135 of a coroutine resumed after its awaits
TResume(t) == \E outcome \in EmbedOutcomes :
    /\ tasks[t].pc = "await"
    /\ Scheduled(t)
    /\ uploads' = uploads
    /\ TExtract(t, tasks[t].file, outcome)

\* line 140: index.add, which raises on vectors of the wrong dimension
TAdd(t) ==
    /\ tasks[t].pc = "add"
    /\ Scheduled(t)
    /\ UNCHANGED <<disk, uploads, saveStatus, nfaults>>
    /\ TaskFrame
    /\ IF tasks[t].outcome = "bad_dim"
       THEN /\ SetMem(AbortedMem(Mem, tasks[t].text_chunks))
            /\ Finish(t, "raised", FALSE)
       ELSE /\ SetMem(IndexAdd(Mem, tasks[t].embeddings))
            /\ tasks' = [tasks EXCEPT ![t].pc = "extend"]
            /\ last' = last

\* line 144
TExtend(t) ==
    /\ tasks[t].pc = "extend"
    /\ Scheduled(t)
    /\ SetMem(ChunksExtend(Mem, tasks[t].text_chunks))
    /\ tasks' = [tasks EXCEPT ![t].pc = "build"]
    /\ UNCHANGED <<disk, uploads, saveStatus, nfaults, last>>
    /\ TaskFrame

\* line 148
TBuild(t) ==
    /\ tasks[t].pc = "build"
    /\ Scheduled(t)
    /\ SetMem(BuildBm25Index(Mem))
    /\ tasks' = [tasks EXCEPT ![t].pc = "record"]
    /\ UNCHANGED <<disk, uploads, saveStatus, nfaults, last>>
    /\ TaskFrame

\* lines 151-155
TRecord(t) ==
    /\ tasks[t].pc = "record"
    /\ Scheduled(t)
    /\ SetMem(RecordDocument(Mem, tasks[t].file, tasks[t].text_chunks))
    /\ tasks' = [tasks EXCEPT ![t].pc = "save"]
    /\ UNCHANGED <<disk, uploads, saveStatus, nfaults, last>>
    /\ TaskFrame

\* lines 159-166
TSave(t) == \E fail \in SaveFailures :
    /\ tasks[t].pc = "save"
    /\ Scheduled(t)
    /\ Faulted(fail)
    /\ disk' = SavePersistentData(Mem, disk, fail)
    /\ saveStatus' = IF SaveCompletes(Mem, fail) THEN "ok" ELSE "failed"
    /\ Finish(t, IF SavePropagates(fail) THEN "raised" ELSE "ok", TRUE)
    /\ UNCHANGED <<memvars, uploads>>
    /\ TaskFrame

\* a restart between calls; the calls of the new process are the tasks not
\* yet started
RestartT ==
    /\ ncalls < MaxTaskRestarts
    /\ \A t \in TaskIds : ~InProgress(t)
    /\ RestartCall
    /\ UNCHANGED tasks

TaskStep == \E t \in TaskIds :
    \/ TBegin(t) \/ TAwait(t) \/ TResume(t)
    \/ TAdd(t) \/ TExtend(t) \/ TBuild(t) \/ TRecord(t) \/ TSave(t)

NextTasks == TaskStep \/ RestartT

SpecTasks == InitTasks /\ [][NextTasks]_vars

-----------------------------------------------------------------------------
(* A search_documents call made while process_document calls are under way.
   The call changes nothing but last, so a behaviour is followed up to its
   first search. *)

\* search_documents(query, top_k) in whatever state the calls under way have
\* left the processor
TornSearch == \E query \in {<<"a">>, <<"b">>}, top_k \in TopKs :
    LET run == SearchRun(Mem, query, top_k, NoFilters)
    IN  /\ last.op # "search"
        /\ last' = [NoCall EXCEPT !.op = "search", !.query = query, !.top_k = top_k,
                       !.ret = run.results, !.used = run.used]
        /\ chunks' = run.chunks
        /\ UNCHANGED <<index, documents, bm25, tokenized_chunks, disk, uploads,
                       saveStatus, ncalls, nfaults, boot, ct, tasks, mode, sc, appvars>>

TornTasks == last.op # "search" /\ NextTasks

NextTorn == TornTasks \/ TornSearch

SpecTorn == InitTasks /\ [][NextTorn]_vars

-----------------------------------------------------------------------------
(* RAGPipeline.generate_answer (rag_pipeline_simple.py).  Scores are in
   ten-thousandths, rounded scores in thousandths. *)

\* chunks handed to one generate_answer call
MaxContext == 4

\* relevance scores of the chunks handed to generate_answer
ContextScores == {3000, 4996, 6996, 7004, 9000}

\* round(x, 3) of a score in ten-thousandths, in thousandths: to the nearest,
\* a half to the even neighbour
Round3(score) ==
    LET q == score \div 10
        r == score % 10
    IN  IF r < 5 THEN q
        ELSE IF r > 5 THEN q + 1
        ELSE IF q % 2 = 0 THEN q ELSE q + 1

\* lines 22-49: the pipelines the constructor can leave
Pipelines ==
    { [client |-> TRUE, use_gemini |-> TRUE, api_key_valid |-> TRUE],
      [client |-> FALSE, use_gemini |-> FALSE, api_key_valid |-> FALSE] }

\* what client.generate_content does: a response with text, a response whose
\* first candidate has parts, one whose first candidate has none (blocked),
\* a response with neither text nor candidates, or an exception
GeminiOutcomes == {"text", "candidate", "blocked", "empty", "raises"}

\* a chunk as search_documents returns it
ContextChunk(score) ==
    [filename |-> "A.pdf", page_number |-> 1, content |-> <<"a">>, relevance_score |-> score]

\* context_chunks[:3]
Top3(context_chunks) == SubSeq(context_chunks, 1, Min(3, Len(context_chunks)))

\* lines 97-129: the answer text, by its kind
AnswerKind(pipeline, outcome) ==
    IF ~pipeline.use_gemini THEN "context_not_configured"
    ELSE CASE outcome = "text" -> "generated"
           [] outcome = "candidate" -> "generated"
           [] outcome = "blocked" -> "context_blocked"
           [] outcome = "empty" -> "context_empty"
           [] outcome = "raises" -> "context_unavailable"

\* lines 132-140
Sources(context_chunks) ==
    LET top == Top3(context_chunks)
    IN  [i \in 1..Len(top) |->
            [filename |-> top[i].filename, page_number |-> top[i].page_number,
             relevance_score |-> Round3(top[i].relevance_score),
             preview |-> top[i].content]]

\* lines 159-166
ErrorSources(context_chunks) ==
    LET top == Top3(context_chunks)
    IN  [i \in 1..Len(top) |->
            [filename |-> top[i].filename, page_number |-> top[i].page_number,
             relevance_score |-> top[i].relevance_score]]

\* mutant: a mean equal to a threshold is taken for one above it
ConfidenceOfInclusive(sources, above) ==
    LET n == Len(sources)
        total == SumOver(1..n, [i \in 1..n |-> sources[i].relevance_score])
    IN  IF n = 0 THEN "low"
        ELSE IF total >= 700 * n THEN "high"
        ELSE IF total >= 500 * n THEN "medium"
        ELSE "low"

\* lines 143-149.  avg_score is a float quotient: of two or three scores
\* whose mean is exactly the threshold it comes out at the threshold or
\* just above it, depending on the scores; above says which
ConfidenceOf(sources, above) ==
    LET n == Len(sources)
        total == SumOver(1..n, [i \in 1..n |-> sources[i].relevance_score])
        Over(threshold) ==
            \/ total > threshold * n
            \/ total = threshold * n /\ n > 1 /\ above
    IN  IF n = 0 THEN "low"
        ELSE IF Over(700) THEN "high"
        ELSE IF Over(500) THEN "medium"
        ELSE "low"

\* generate_answer(query, context_chunks): what it returns
GenerateAnswer(pipeline, context_chunks, outcome, above) ==
    IF context_chunks = <<>>
    THEN [raised |-> FALSE, answer |-> "nothing_found", sources |-> <<>>,
          confidence |-> "low"]
    ELSE IF ~pipeline.client \/ ~pipeline.api_key_valid
    THEN [raised |-> FALSE, answer |-> "key_needed",
          sources |-> ErrorSources(context_chunks), confidence |-> "error"]
    ELSE [raised |-> FALSE, answer |-> AnswerKind(pipeline, outcome),
          sources |-> Sources(context_chunks),
          confidence |-> ConfidenceOf(Sources(context_chunks), above),
          chunks_found |-> Len(context_chunks)]

InitAnswer ==
    /\ InitProcessor
    /\ ct = IdleCt
    /\ sc = IdleSc
    /\ tasks = <<>>
    /\ mode = "serial"

\* the chunks the caller has collected for the call so far
Collected == IF rag.pc = "idle" THEN <<>> ELSE rag.context_chunks

\* the caller's search returned one more chunk
AnswerChunk == \E score \in ContextScores :
    /\ rag.pc \in {"idle", "args"}
    /\ Len(Collected) < MaxContext
    /\ rag' = [pc |-> "args", context_chunks |-> Append(Collected, ContextChunk(score))]
    /\ UNCHANGED <<procvars, ex, conv>>

\* the pipeline is constructed and generate_answer is called
AnswerCall == \E pipeline \in Pipelines, outcome \in GeminiOutcomes :
    /\ rag.pc \in {"idle", "args"}
    /\ rag' = [pc |-> "called", pipeline |-> pipeline, context_chunks |-> Collected,
               outcome |-> outcome]
    /\ UNCHANGED <<procvars, ex, conv>>

\* generate_answer returns
AnswerReturn == \E above \in BOOLEAN :
    /\ rag.pc = "called"
    /\ rag' = [rag EXCEPT !.pc = "done"] @@
              [result |-> GenerateAnswer(rag.pipeline, rag.context_chunks, rag.outcome, above)]
    /\ UNCHANGED <<procvars, ex, conv>>

NextAnswer == AnswerChunk \/ AnswerCall \/ AnswerReturn

SpecAnswer == InitAnswer /\ [][NextAnswer]_vars

-----------------------------------------------------------------------------
(* StructuredExtractor.extract_door_schedule, extract_room_schedule and
   extract_equipment_list (structured_extractor_simple.py) *)

\* chunks handed to one extraction call
MaxExtractContext == 3

ExtractionTypes == {"door_schedule", "room_schedule", "equipment_list"}

\* what client.generate_content and response.text do: an exception, or a
\* text: its markdown fence, if any, and the kind of document between the
\* fences (a JSON array of so many objects, a JSON object, another JSON
\* value such as a number or null, or no JSON at all)
GenerativeOutcomes ==
    {[raises |-> TRUE]}
    \cup [raises : {FALSE}, fence : {"none", "json", "plain"},
          body : {"array0", "array2", "object", "scalar", "invalid"}]

\* lines 93-97: json.loads and the coercion to a list; the items by number
ParsedData(body) ==
    CASE body = "array0" -> [decoded |-> TRUE, data |-> <<>>]
      [] body = "array2" -> [decoded |-> TRUE, data |-> <<"item", "item">>]
      [] body = "object" -> [decoded |-> TRUE, data |-> <<"item">>]
      [] body = "scalar" -> [decoded |-> TRUE, data |-> <<>>]
      [] body = "invalid" -> [decoded |-> FALSE, data |-> <<>>]

\* the three extract_* functions: what a call returns.  n is the number of
\* context chunks
ExtractSchedule(type, client, outcome, n) ==
    IF ~client
    THEN IF type = "door_schedule"
         THEN [extraction_type |-> type, data |-> <<>>,
               error |-> "not_configured", sources |-> <<>>]
         ELSE [extraction_type |-> type, data |-> <<>>, error |-> "not_configured"]
    ELSE IF outcome.raises
    THEN [extraction_type |-> type, data |-> <<>>, error |-> "exception"]
    ELSE LET parsed == ParsedData(outcome.body)
         IN  IF ~parsed.decoded
             THEN IF type = "door_schedule"
                  THEN [extraction_type |-> type, data |-> <<>>,
                        error |-> "parse", sources |-> <<>>]
                  ELSE [extraction_type |-> type, data |-> <<>>, error |-> "parse"]
             ELSE [extraction_type |-> type, data |-> parsed.data,
                   sources |-> [i \in 1..Min(3, n) |-> "source"],
                   total_items |-> Len(parsed.data)]

InitExtract ==
    /\ InitProcessor
    /\ ct = IdleCt
    /\ sc = IdleSc
    /\ tasks = <<>>
    /\ mode = "serial"

\* the extractor is constructed and one of its extract_* functions is called
ExtractCall == \E type \in ExtractionTypes, client \in BOOLEAN,
                  n \in 0..MaxExtractContext :
    /\ ex.pc = "idle"
    /\ ex' = [pc |-> "called", type |-> type, client |-> client, n |-> n]
    /\ UNCHANGED <<procvars, rag, conv>>

\* lines 83-84 and their like: the generative call and response.text
ExtractGenerate == \E outcome \in GenerativeOutcomes :
    /\ ex.pc = "called"
    /\ ex.client
    /\ ex' = [ex EXCEPT !.pc = "generated"] @@ [outcome |-> outcome]
    /\ UNCHANGED <<procvars, rag, conv>>

\* the function returns
ExtractReturn ==
    /\ \/ ex.pc = "called" /\ ~ex.client
       \/ ex.pc = "generated"
    /\ ex' = [ex EXCEPT !.pc = "done"] @@
             [result |-> ExtractSchedule(ex.type, ex.client,
                            IF ex.client THEN ex.outcome ELSE [raises |-> TRUE], ex.n)]
    /\ UNCHANGED <<procvars, rag, conv>>

NextExtract == ExtractCall \/ ExtractGenerate \/ ExtractReturn

SpecExtract == InitExtract /\ [][NextExtract]_vars

-----------------------------------------------------------------------------
(* Properties *)

IsPrefix(a, b) == Len(a) <= Len(b) /\ SubSeq(b, 1, Len(a)) = a

IngestSucceeded == last.op = "ingest" /\ last.status = "ok"

AllTasksDone == \A t \in TaskIds : tasks[t].pc = "done"

NoTaskInProgress == \A t \in TaskIds : ~InProgress(t)

\* C1 (as amended): after every process_document call that reports success
\* the tokenized sequence and the keyword model have one entry per chunk, and
\* the number of vectors exceeds the number of chunks by exactly what it did
\* when the processor was constructed (by 0 after a construction over empty or
\* completely saved storage).
C1_SuccessKeepsCounts ==
    IngestSucceeded =>
        /\ Len(tokenized_chunks) = Len(chunks)
        /\ bm25.built /\ Len(bm25.corpus) = Len(chunks)
        /\ Len(index) - Len(chunks) = boot.skew

C1_Witness ==
    /\ IngestSucceeded
    /\ ncalls >= 2
    /\ Len(chunks) >= 3
    /\ Len(index) = Len(chunks)

\* C1 (original): after every successful process_document call, from any
\* state reachable by construction/load and earlier ingestions, the numbers of
\* vectors, chunks and tokenized chunks are equal.
C1_Original ==
    IngestSucceeded =>
        Len(index) = Len(chunks) /\ Len(chunks) = Len(tokenized_chunks)

\* C2 (as amended): when the latest _save_persistent_data of the process wrote
\* every artifact without an I/O failure, a processor constructed over the
\* storage holds the same vector index, chunks, document records and keyword
\* index as the saving one (and so answers every search alike).
C2_CompleteSaveRoundTrips ==
    saveStatus = "ok" => Construct(disk, NoFail).m = Mem

C2_Witness ==
    /\ saveStatus = "ok"
    /\ last.op = "ingest"
    /\ Len(chunks) >= 3
    /\ Cardinality(DOMAIN documents) = 2
    /\ Construct(disk, NoFail).m.chunks = chunks

\* C2 (original): whenever _save_persistent_data has run, a processor
\* constructed over the storage holds what the saving one held.
C2_Original ==
    saveStatus \in {"ok", "failed"} => Construct(disk, NoFail).m = Mem

\* C3 (as amended): if the state loaded by the construction had as many vectors
\* as chunks, vector i the embedding of chunk i and tokenized entry i the
\* tokenization of chunk i, then the same holds in every state reached by
\* serial ingestions; and an ingestion only appends, so stored vectors and
\* chunks keep their positions.
C3_AlignmentKept ==
    /\ [](boot.aligned =>
            /\ Len(index) = Len(chunks)
            /\ VectorsAligned(Mem)
            /\ TokensAligned(Mem))
    /\ [][last'.op = "ingest" => IsPrefix(index, index') /\ IsPrefix(chunks, chunks')]_vars

C3_Witness ==
    /\ boot.aligned
    /\ IngestSucceeded
    /\ ncalls >= 2
    /\ Len(chunks) >= 3
    /\ Cardinality(DOMAIN documents) = 2

\* C3 (original): in every state reachable by construction/load and serial
\* ingestions, vector i is the embedding of chunk i and tokenized entry i the
\* tokenization of chunk i, for every position i of either sequence.
C3_Original ==
    /\ Len(index) = Len(chunks)
    /\ VectorsAligned(Mem)
    /\ TokensAligned(Mem)

\* C4: search_documents with filters.document = F returns only chunks whose
\* filename is F.
C4_DocumentFilter ==
    (last.op = "search" /\ last.filters.document # "") =>
        \A i \in 1..Len(last.ret) : last.ret[i].filename = last.filters.document

\* the filter is on A.pdf, something is returned, and without the filter the
\* best hit is a chunk of B.pdf
C4_Witness ==
    /\ last.op = "search"
    /\ last.filters.document = "A.pdf"
    /\ last.ret # <<>>
    /\ LET plain == SearchDocuments(Mem, last.query, last.top_k, NoFilters)
       IN  plain # <<>> /\ plain[1].filename = "B.pdf"
               /\ plain[1].relevance_score > last.ret[1].relevance_score

\* C5 (as amended): with serialized ingestion, whenever no ingestion is in
\* progress the number of vectors exceeds the number of chunks by exactly what
\* it did at construction (0 after a construction over empty or completely
\* saved storage); with unserialized ingestion a state with different counts is
\* reached between two calls' interleaved appends (the witness).
C5_SerialIdleCounts ==
    (mode = "serial" /\ NoTaskInProgress) => Len(index) - Len(chunks) = boot.skew

\* task 1 has added its vectors, task 2 has added its vectors and its chunks
C5_Witness ==
    /\ mode = "unserialized"
    /\ tasks[1].pc = "extend"
    /\ tasks[2].pc = "build"
    /\ Len(index) # Len(chunks)

\* C5 (original): with serialized ingestion the numbers of vectors and chunks
\* are equal whenever no ingestion is in progress.
C5_Original ==
    (mode = "serial" /\ NoTaskInProgress) => Len(index) = Len(chunks)

\* C6 (as amended): after both ingestions have completed in a process whose
\* construction loaded an aligned state, the numbers of vectors and chunks are
\* equal and tokenized entry i is the tokenization of chunk i; vector i is the
\* embedding of chunk i if the ingestions were serialized.
C6_CompletedTasks ==
    (AllTasksDone /\ boot.aligned) =>
        /\ Len(index) = Len(chunks)
        /\ TokensAligned(Mem)
        /\ (mode = "serial" => VectorsAligned(Mem))

\* two interleaved ingestions have both succeeded and left vectors and chunks
\* in different orders
C6_Witness ==
    /\ mode = "unserialized"
    /\ \A t \in TaskIds : tasks[t].pc = "done" /\ tasks[t].status = "ok"
    /\ boot.aligned
    /\ Len(index) = Len(chunks)
    /\ ~VectorsAligned(Mem)

\* C6 (original): after two ingestions with interleaved steps have both
\* completed, vector i is the embedding of chunk i for every i.
C6_Original ==
    (mode = "unserialized" /\ AllTasksDone /\ boot.aligned) =>
        Len(index) = Len(chunks) /\ VectorsAligned(Mem)

\* C7: a process_document call in which embedding generation or index.add
\* raises leaves the vector index, the chunks, the keyword index, the document
\* records and the stored artifacts as they were, and performs no save.
C7_AbortChangesNothing ==
    [][(last'.op = "ingest" /\ last'.status = "raised" /\ ncalls' = ncalls + 1) =>
          /\ UNCHANGED <<index, chunks, documents, bm25, tokenized_chunks>>
          /\ UNCHANGED <<disk, saveStatus>>
          /\ ~last'.saved]_vars

C7_Witness ==
    /\ last.op = "ingest"
    /\ last.status = "raised"
    /\ Len(index) > 0
    /\ Len(chunks) > 0

\* C8: search_documents on an index without vectors returns the empty sequence
\* without consulting the embedding provider or the keyword index, whatever
\* the query, top_k and filters.
C8_EmptyIndexSearch ==
    (last.op = "search" /\ Len(index) = 0) => last.ret = <<>> /\ ~last.used

C8_Witness ==
    /\ last.op = "search"
    /\ Len(index) = 0
    /\ last.filters.document = "A.pdf"
    /\ last.top_k = 2

\* the run of _chunk_text on 2500 times "A" with chunk_size 1000, overlap 200
IsRun2500 ==
    /\ ct.pc = "done"
    /\ Len(ct.text) = 2500
    /\ ct.chunk_size = 1000
    /\ ct.overlap = 200

\* C9 (as amended): chunking 2500 identical non-whitespace characters with
\* chunk_size 1000 and overlap 200 yields exactly 4 chunks, of lengths 1000,
\* 1000, 900 and 100, taken at offsets 0, 800, 1600 and 2400.
C9_Chunks2500 ==
    IsRun2500 =>
        /\ ct.offsets = <<0, 800, 1600, 2400>>
        /\ [k \in 1..Len(ct.chunks) |-> Len(ct.chunks[k])] = <<1000, 1000, 900, 100>>
        /\ \A k \in 1..Len(ct.chunks) : \A i \in 1..Len(ct.chunks[k]) : ct.chunks[k][i] = "A"

C9_Witness == IsRun2500 /\ Len(ct.chunks) = 4

\* C9 (original): that run yields exactly 3 chunks, of lengths 1000, 1000 and
\* 500, taken at offsets 0, 800 and 1600.
C9_Original ==
    IsRun2500 =>
        /\ ct.offsets = <<0, 800, 1600>>
        /\ [k \in 1..Len(ct.chunks) |-> Len(ct.chunks[k])] = <<1000, 1000, 500>>

ArtifactNames == {"index_file", "chunks_file", "metadata_file", "bm25_file"}

\* C10: for each artifact, constructing a processor over a storage in which
\* that artifact is unreadable yields the same memory as constructing it over
\* the storage without that artifact.
C10_CorruptLoadsLikeAbsent ==
    \A f \in ArtifactNames :
        disk[f].st = "corrupt" =>
            Construct(disk, NoFail).m = Construct([disk EXCEPT ![f] = Absent], NoFail).m

\* the storages in which each artifact of d is as in d, missing or unreadable
DegradedDisks(d) ==
    {[index_file |-> a, chunks_file |-> b, metadata_file |-> c, bm25_file |-> e] :
        a \in {d.index_file, Absent, Corrupt}, b \in {d.chunks_file, Absent, Corrupt},
        c \in {d.metadata_file, Absent, Corrupt}, e \in {d.bm25_file, Absent, Corrupt}}

\* every part of memory m is as constructed empty or as stored in d
EmptyOrPartial(m, d) ==
    /\ m.index \in {EmptyMem.index, d.index_file.data}
    /\ m.chunks \in {EmptyMem.chunks, d.chunks_file.data}
    /\ m.documents \in {EmptyMem.documents, d.metadata_file.data}
    /\ \/ m.bm25 = NoBm25 /\ m.tokenized_chunks = <<>>
       \/ /\ d.bm25_file.st = "ok"
          /\ m.bm25 = d.bm25_file.data.bm25
          /\ m.tokenized_chunks = d.bm25_file.data.tokenized_chunks

\* C11: over every combination of missing, present and unreadable artifacts,
\* _load_persistent_data returns without raising and leaves each part of the
\* memory either empty or as stored; every construction made has returned a
\* processor.
C11_LoadNeverPreventsStartup ==
    /\ last.op = "construct" => last.status = "ok"
    /\ \A d \in DegradedDisks(disk) :
          LET s == LoadRun(EmptyMem, d)
          IN  ~LoadPropagates(s) /\ EmptyOrPartial(s.m, d)

\* a processor was constructed over a storage whose chunk artifact is
\* unreadable: the vectors are loaded, the chunks are not
C11_Witness ==
    /\ last.op = "construct"
    /\ last.status = "ok"
    /\ ncalls > 0
    /\ disk.index_file.st = "ok"
    /\ disk.chunks_file.st = "corrupt"
    /\ Len(index) > 0
    /\ chunks = <<>>

\* the keyword-index artifact holding the keyword index of memory m
Bm25Artifact(m) == Stored([bm25 |-> m.bm25, tokenized_chunks |-> m.tokenized_chunks])

\* C12 (as amended): if at startup the chunk sequence was loaded non-empty and
\* no keyword index was loaded, the constructor rebuilds the keyword index
\* from the loaded chunks, so that it covers every loaded chunk, and then runs
\* _save_persistent_data; a keyword-index artifact holding the rebuilt index
\* exists afterwards if that save wrote every artifact without an I/O failure.
C12_RebuildAtStartup ==
    /\ (last.op = "construct" /\ last.saved) =>
          /\ chunks # <<>>
          /\ bm25 = Bm25Okapi(tokenized_chunks)
          /\ TokensAligned(Mem)
          /\ saveStatus = "ok" => disk.bm25_file = Bm25Artifact(Mem)
    /\ \A fail \in SaveFailures :
          LET loaded == LoadPersistentData(EmptyMem, disk)
              c      == Construct(disk, fail)
          IN  (loaded.chunks # <<>> /\ ~loaded.bm25.built) =>
                  /\ c.saved
                  /\ c.m.chunks = loaded.chunks
                  /\ c.m.bm25 = Bm25Okapi(c.m.tokenized_chunks)
                  /\ TokensAligned(c.m)
                  /\ c.saveOk => c.disk.bm25_file = Bm25Artifact(c.m)

\* a construction found chunks and no keyword index, rebuilt it and saved it
C12_Witness ==
    /\ last.op = "construct"
    /\ last.saved
    /\ saveStatus = "ok"
    /\ Len(chunks) >= 2
    /\ TokensAligned(Mem)
    /\ disk.bm25_file = Bm25Artifact(Mem)

\* C12 (original): whenever the chunk sequence is loaded non-empty and no
\* keyword index is loaded, after construction the keyword index covers every
\* loaded chunk and a keyword-index artifact exists, whatever happens to the
\* constructor's save.
C12_Original ==
    \A fail \in SaveFailures :
        LET loaded == LoadPersistentData(EmptyMem, disk)
            c      == Construct(disk, fail)
        IN  (loaded.chunks # <<>> /\ ~loaded.bm25.built) =>
                TokensAligned(c.m) /\ c.disk.bm25_file.st = "ok"

\* C13: when a write of _save_persistent_data fails during process_document,
\* the failure is caught, the call returns the success record (document_id,
\* filename, chunks_count, no error field), and the vectors, the chunks, the
\* keyword index and the document record of that ingestion are in memory.
C13_SaveFailureKeepsIngestion ==
    [][(last'.op = "ingest" /\ nfaults' = nfaults + 1) =>
          /\ last'.status = "ok"
          /\ saveStatus' = "failed"
          /\ DOMAIN last'.ret = {"document_id", "filename", "chunks_count"}
          /\ last'.ret.document_id = DocId(last'.filename)
          /\ last'.ret.filename = last'.filename
          /\ LET n == last'.ret.chunks_count
             IN  /\ n > 0
                 /\ Len(index') = Len(index) + n
                 /\ Len(chunks') = Len(chunks) + n
                 /\ IsPrefix(index, index')
                 /\ IsPrefix(chunks, chunks')
                 /\ \A i \in 1..n :
                       /\ chunks'[Len(chunks) + i].filename = last'.filename
                       /\ index'[Len(index) + i] = Embed(chunks'[Len(chunks) + i].content)
                 /\ bm25' = Bm25Okapi(tokenized_chunks')
                 /\ Len(tokenized_chunks') = Len(chunks')
                 /\ \A i \in 1..Len(chunks') :
                       tokenized_chunks'[i] = Tokenize(chunks'[i].content)
                 /\ DocId(last'.filename) \in DOMAIN documents'
                 /\ documents'[DocId(last'.filename)].chunks_count = n]_vars

\* the first ingestion of the process has returned the success record although
\* its write of the vector-index artifact failed
C13_Witness ==
    /\ IngestSucceeded
    /\ ncalls = 1
    /\ saveStatus = "failed"
    /\ disk.index_file.st = "corrupt"
    /\ Len(index) >= 2
    /\ Len(chunks) = Len(index)
    /\ "error" \notin DOMAIN last.ret

\* C14: after every successful ingestion no two entries of the chunk sequence
\* have the same id.
C14_ChunkIdsUnique ==
    IngestSucceeded =>
        \A i, j \in 1..Len(chunks) : i # j => chunks[i].id # chunks[j].id

\* C15: a successful ingestion of a filename that has a document record
\* leaves one record under that document id, holding the chunk count of this
\* ingestion, leaves the other records as they were, and appends to the chunk
\* sequence and the vector index without removing anything stored.
C15_ReingestOverwritesRecord ==
    [][(last'.op = "ingest" /\ last'.status = "ok"
            /\ DocId(last'.filename) \in DOMAIN documents) =>
          LET doc_id == DocId(last'.filename)
              n      == last'.ret.chunks_count
          IN  /\ DOMAIN documents' = DOMAIN documents
              /\ documents'[doc_id].chunks_count = n
              /\ \A d \in DOMAIN documents \ {doc_id} : documents'[d] = documents[d]
              /\ IsPrefix(chunks, chunks') /\ Len(chunks') = Len(chunks) + n
              /\ IsPrefix(index, index') /\ Len(index') = Len(index) + n]_vars

\* A.pdf was ingested with one chunk and again with two: three chunks and
\* three vectors of A.pdf are stored, its one record counts two
C15_Witness ==
    /\ IngestSucceeded
    /\ ncalls = 2
    /\ DOMAIN documents = {DocId(last.filename)}
    /\ documents[DocId(last.filename)].chunks_count = 2
    /\ Len(chunks) = 3
    /\ Len(index) = 3
    /\ \A i \in 1..Len(chunks) : chunks[i].filename = last.filename

\* the place of the entry for chunk position idx in the sorted results
RankOf(idx) == CHOOSE p \in 1..Len(sc.sorted_results) : sc.sorted_results[p].idx = idx

WindowsOf(n) == (n + (ChunkSize - ChunkOverlap) - 1) \div (ChunkSize - ChunkOverlap)

\* C17: a successful ingestion into an empty index leaves a document record
\* whose chunk count, the number of vectors and the number of stored chunks are
\* all the number n of chunks its pages yield; each stored chunk carries the
\* 1-based number of the page it was cut from, and a chunk index that starts
\* at 0 on each page and counts the chunks of that page.
C17_PagesAndCounts ==
    [][(index = <<>> /\ chunks = <<>> /\ last'.op = "ingest" /\ last'.status = "ok") =>
          LET n == Len(chunks')
          IN  /\ n > 0
              /\ last'.ret.chunks_count = n
              /\ documents'[DocId(last'.filename)].chunks_count = n
              /\ Len(index') = n
              /\ \E file \in PageUploads :
                    /\ file.filename = last'.filename
                    /\ \A p \in 1..Len(file.pages) :
                          Cardinality({k \in 1..n : chunks'[k].page_number = p})
                              = IF Strip(file.pages[p].text) = <<>> THEN 0
                                ELSE WindowsOf(Len(file.pages[p].text))
                    /\ \A k \in 1..n :
                          LET c  == chunks'[k]
                              at == c.chunk_index * (ChunkSize - ChunkOverlap)
                          IN  /\ c.page_number \in 1..Len(file.pages)
                              /\ k > 1 => chunks'[k - 1].page_number <= c.page_number
                              /\ c.chunk_index =
                                    Cardinality({j \in 1..(k - 1) :
                                                    chunks'[j].page_number = c.page_number})
                              /\ c.content =
                                    Strip(PySlice(file.pages[c.page_number].text,
                                                  at, at + ChunkSize))]_vars

\* the first ingestion was of a file whose page 1 yields two chunks and whose
\* page 2 yields one
C17_Witness ==
    /\ IngestSucceeded
    /\ ncalls = 1
    /\ [k \in 1..Len(chunks) |-> <<chunks[k].page_number, chunks[k].chunk_index>>]
           = << <<1, 0>>, <<1, 1>>, <<2, 0>> >>
    /\ Len(index) = 3
    /\ documents[DocId(last.filename)].chunks_count = 3

\* C18: a search made while an ingestion is in progress, whatever steps the
\* calls under way have taken, returns at most top_k results, each the chunk
\* at a position that exists in the chunk sequence, with bm25_score 0 if the
\* keyword index does not cover that position and the score of the keyword
\* index for that position if it does.
C18_TornSearch ==
    (last.op = "search" /\ \E t \in TaskIds : InProgress(t)) =>
        /\ last.status = "ok"
        /\ Len(last.ret) <= last.top_k
        /\ \A r \in 1..Len(last.ret) :
              LET e == last.ret[r]
              IN  /\ e.position < Len(chunks)
                  /\ e.id = chunks[e.position + 1].id
                  /\ e.content = chunks[e.position + 1].content
                  /\ e.position >= Len(bm25.corpus) => e.bm25_score = 0
                  /\ e.position < Len(bm25.corpus) =>
                        e.bm25_score =
                            Bm25GetScores(bm25, Tokenize(last.query))[e.position + 1]

\* one ingestion has completed; a second has extended the chunks and not yet
\* rebuilt the keyword index, and the search returns one of its chunks
C18_Witness ==
    /\ last.op = "search"
    /\ \E t \in TaskIds : tasks[t].pc = "build"
    /\ bm25.built
    /\ Len(chunks) > Len(bm25.corpus)
    /\ \E r \in 1..Len(last.ret) :
          last.ret[r].position >= Len(bm25.corpus) /\ last.ret[r].bm25_score = 0
    /\ \E r \in 1..Len(last.ret) : last.ret[r].bm25_score # 0

\* no call is between its last await and its return
NoMutationUnderWay == \A t \in TaskIds : tasks[t].pc \notin MutationSteps

\* C19 (as amended): when process_document calls run as coroutines of one
\* event loop, at most one call at a time is between its last await and its
\* return, so the mutation steps of the calls do not interleave; whenever no
\* call is there (in particular after all calls have completed), in a process
\* whose construction loaded an aligned state, the numbers of vectors and
\* chunks are equal, vector i is the embedding of chunk i and tokenized entry
\* i the tokenization of chunk i.
C19_CooperativeCalls ==
    mode = "cooperative" =>
        /\ Cardinality({t \in TaskIds : tasks[t].pc \in MutationSteps}) <= 1
        /\ (NoMutationUnderWay /\ boot.aligned) =>
              /\ Len(index) = Len(chunks)
              /\ VectorsAligned(Mem)
              /\ TokensAligned(Mem)

\* two coroutines have both ingested their files
C19_Witness ==
    /\ mode = "cooperative"
    /\ \A t \in TaskIds : tasks[t].pc = "done" /\ tasks[t].status = "ok"
    /\ tasks[1].file.filename # tasks[2].file.filename
    /\ boot.aligned
    /\ Len(index) = Len(chunks)
    /\ Len(chunks) >= 3
    /\ VectorsAligned(Mem)

\* C19 (original): when the last of the calls run on one cooperative event
\* loop has completed, the numbers of vectors and chunks are equal and vector
\* i is the embedding of chunk i.
C19_Original ==
    (mode = "cooperative" /\ AllTasksDone /\ last.op = "ingest") =>
        Len(index) = Len(chunks) /\ VectorsAligned(Mem)

\* the text is empty or consists of whitespace
IsBlank(text) == \A i \in 1..Len(text) : IsSpace(text[i])

\* C20 (as amended): for the empty text the chunker returns the empty
\* sequence; for a whitespace-only text it returns one empty string per
\* window, not the empty sequence; a page whose extracted text is empty or
\* whitespace-only is not handed to the chunker and contributes no chunk to
\* the ingestion.
C20_BlankText ==
    (ct.pc = "done" /\ IsBlank(ct.text)) =>
        /\ \A k \in 1..Len(ct.chunks) : ct.chunks[k] = <<>>
        /\ ct.chunks = <<>> <=> ct.text = <<>>
        /\ ct.text # <<>> =>
              /\ ct.chunk_size > ct.overlap
              /\ (Len(ct.chunks) - 1) * (ct.chunk_size - ct.overlap) < Len(ct.text)
              /\ Len(ct.chunks) * (ct.chunk_size - ct.overlap) >= Len(ct.text)
        /\ PageChunks(ct.text, 1, DocId("A.pdf"), "A.pdf") = <<>>
        /\ LET pages == <<Page(<<"a">>), Page(ct.text), Page(<<"b">>)>>
               got   == ExtractAndChunkPdf(pages, DocId("A.pdf"), "A.pdf")
           IN  [k \in 1..Len(got) |-> got[k].page_number] = <<1, 3>>

\* the chunker has returned two empty strings for a text of two spaces
C20_Witness ==
    /\ ct.pc = "done"
    /\ ct.text = <<" ", " ">>
    /\ ct.chunk_size = 1
    /\ ct.chunks = << <<>>, <<>> >>
    /\ PageChunks(ct.text, 1, DocId("A.pdf"), "A.pdf") = <<>>

\* C20 (original): for an empty or whitespace-only text the chunker returns
\* the empty sequence, and a page with such a text contributes no chunk.
C20_Original ==
    (ct.pc = "done" /\ IsBlank(ct.text)) =>
        /\ ct.chunks = <<>>
        /\ PageChunks(ct.text, 1, DocId("A.pdf"), "A.pdf") = <<>>

\* C21: every run of the chunker ends: it returns, or it is rejected.
C21_ChunkerTerminates == <>(ct.pc \in {"done", "rejected"})

\* vector i is retrieved before vector j for the query of the last search:
\* it is nearer, or as near and stored earlier
RetrievedBefore(i, j) ==
    LET q == Embed(last.query)
    IN  \/ L2Sqr(index[i], q) < L2Sqr(index[j], q)
        \/ L2Sqr(index[i], q) = L2Sqr(index[j], q) /\ i < j

\* the positions (from 1) of the min(2 * top_k, vector_count) vectors nearest
\* to the query of the last search
NearestWindow ==
    {i \in 1..Len(index) :
        Cardinality({j \in 1..Len(index) : RetrievedBefore(j, i)})
            < Min(2 * last.top_k, Len(index))}

\* C22: search_documents takes its candidates from the min(2 * top_k,
\* vector_count) nearest vectors, so it considers at most 2 * top_k of them,
\* and returns at most top_k chunks, whatever the index, top_k and filters.
C22_CandidateCaps ==
    last.op = "search" =>
        /\ Len(last.ret) <= last.top_k
        /\ Cardinality(NearestWindow) = Min(2 * last.top_k, Len(index))
        /\ \A r \in 1..Len(last.ret) : last.ret[r].position + 1 \in NearestWindow

\* more vectors are stored than candidates are asked for, and top_k chunks
\* are returned
C22_Witness ==
    /\ last.op = "search"
    /\ last.top_k = 2
    /\ Len(index) > 2 * last.top_k
    /\ Len(last.ret) = last.top_k
    /\ \E i \in 1..Len(index) : i \notin NearestWindow

\* C23: the chunks search_documents returns are at distinct positions, in
\* order of non-increasing relevance_score, and two of equal relevance_score
\* are in the order the vector index retrieved them.
C23_RankOrder ==
    last.op = "search" =>
        \A r, t \in 1..Len(last.ret) :
            r < t =>
                /\ last.ret[r].position # last.ret[t].position
                /\ last.ret[r].relevance_score >= last.ret[t].relevance_score
                /\ last.ret[r].relevance_score = last.ret[t].relevance_score
                       => RetrievedBefore(last.ret[r].position + 1, last.ret[t].position + 1)

\* two chunks of equal relevance_score are returned, the one retrieved first
\* comes first
C23_Witness ==
    /\ last.op = "search"
    /\ \E r, t \in 1..Len(last.ret) :
            /\ r < t
            /\ last.ret[r].relevance_score = last.ret[t].relevance_score
            /\ last.ret[r].position < last.ret[t].position

\* the ranked candidates of the last search that its filter loop runs over:
\* the first 2 * top_k entries of the candidates sorted by combined score
RankedWindow ==
    LET cand == FaissSearch(index, Embed(last.query), Min(2 * last.top_k, Len(index)))
        bm25_scores == IF bm25.built
                       THEN Bm25GetScores(bm25, Tokenize(last.query)) ELSE <<>>
        sorted == SortByScore(CombinedResults(Mem, cand, bm25_scores))
    IN  SubSeq(sorted, 1, Min(2 * last.top_k, Len(sorted)))

\* the entry is of the named document (if one is named), its page is within
\* the bounds of the page range (if one is given) and its score is at least
\* the minimum confidence (if one is given)
SatisfiesFilters(filters, entry) ==
    /\ filters.document # "" => entry.chunk.filename = filters.document
    /\ filters.page_range # <<>> =>
           /\ entry.chunk.page_number >= filters.page_range[1]
           /\ entry.chunk.page_number <= filters.page_range[2]
    /\ filters.min_confidence # 0 => entry.score >= filters.min_confidence

\* the entries of the ranked window that satisfy the filters of the last
\* search, in rank order
MatchingWindow == SelectSeq(RankedWindow, LAMBDA e : SatisfiesFilters(last.filters, e))

\* C24: the result of search_documents is the first top_k entries, in rank
\* order, of the candidates among the top 2 * top_k ranked ones that satisfy
\* every filter: a rejected candidate takes no place in the result.
C24_FilteredPrefix ==
    (last.op = "search" /\ Len(index) > 0) =>
        LET matching == MatchingWindow
        IN  /\ Len(last.ret) = Min(last.top_k, Len(matching))
            /\ \A r \in 1..Len(last.ret) : last.ret[r] = Annotated(matching[r])

\* the best ranked candidate is rejected and the result is still full, its
\* last chunk ranked beyond top_k
C24_Witness ==
    /\ last.op = "search"
    /\ last.top_k = 2
    /\ Len(last.ret) = 2
    /\ LET window == RankedWindow
       IN  /\ Len(window) = 4
           /\ ~SatisfiesFilters(last.filters, window[1])
           /\ ~SatisfiesFilters(last.filters, window[3])
           /\ last.ret[2] = Annotated(window[4])

\* C25: with a page_range filter every returned chunk is of a page within
\* the range, both bounds included: a ranked candidate of the first or the
\* last page of the range is returned unless top_k candidates ranked before
\* it are.
C25_PageRangeInclusive ==
    (last.op = "search" /\ last.filters.page_range # <<>>) =>
        LET window == RankedWindow
            page_min == last.filters.page_range[1]
            page_max == last.filters.page_range[2]
        IN  /\ \A r \in 1..Len(last.ret) :
                   /\ last.ret[r].page_number >= page_min
                   /\ last.ret[r].page_number <= page_max
            /\ \A i \in 1..Len(window) :
                   (/\ window[i].chunk.page_number \in {page_min, page_max}
                    /\ page_min <= page_max
                    /\ last.filters.document = ""
                    /\ last.filters.min_confidence = 0)
                   => \/ \E r \in 1..Len(last.ret) : last.ret[r].position = window[i].idx
                      \/ /\ Len(last.ret) = last.top_k
                         /\ \A r \in 1..Len(last.ret) : \E j \in 1..(i - 1) :
                                last.ret[r].position = window[j].idx

\* a chunk of the page that is both bounds of the range is returned, a
\* better ranked chunk of another page is not
C25_Witness ==
    /\ last.op = "search"
    /\ last.filters.page_range = <<2, 2>>
    /\ Len(last.ret) > 0
    /\ last.ret[1].page_number = 2
    /\ RankedWindow[1].chunk.page_number = 1

\* C26: with min_confidence c every returned chunk has a relevance_score of
\* at least c, and a ranked candidate whose score is exactly c is returned
\* unless another filter rejects it or top_k candidates ranked before it
\* are returned.
C26_MinConfidenceInclusive ==
    (last.op = "search" /\ last.filters.min_confidence # 0) =>
        LET window == RankedWindow
        IN  /\ \A r \in 1..Len(last.ret) :
                   last.ret[r].relevance_score >= last.filters.min_confidence
            /\ \A i \in 1..Len(window) :
                   (/\ window[i].score = last.filters.min_confidence
                    /\ ~DocumentFilterRejects(last.filters, window[i].chunk)
                    /\ ~PageFilterRejects(last.filters, window[i].chunk))
                   => \/ \E r \in 1..Len(last.ret) : last.ret[r].position = window[i].idx
                      \/ /\ Len(last.ret) = last.top_k
                         /\ \A r \in 1..Len(last.ret) : \E j \in 1..(i - 1) :
                                last.ret[r].position = window[j].idx

\* a chunk whose score is exactly the threshold is returned, a candidate
\* below the threshold is not
C26_Witness ==
    /\ last.op = "search"
    /\ last.filters.min_confidence # 0
    /\ \E r \in 1..Len(last.ret) :
            last.ret[r].relevance_score = last.filters.min_confidence
    /\ LET window == RankedWindow
       IN  \E i \in 1..Len(window) : window[i].score < last.filters.min_confidence

\* the chunks of the corpus that satisfy the document and page filters of
\* the last search
MatchingChunks ==
    {i \in 1..Len(chunks) :
        /\ last.filters.document # "" => chunks[i].filename = last.filters.document
        /\ last.filters.page_range # <<>> =>
               /\ chunks[i].page_number >= last.filters.page_range[1]
               /\ chunks[i].page_number <= last.filters.page_range[2]}

\* C27: a search that returns fewer than top_k chunks has returned every
\* candidate of its top 2 * top_k ranked ones that satisfies the filters;
\* matching chunks ranked beyond them are never looked at (the witness is
\* such a search).
C27_WindowExhausted ==
    (last.op = "search" /\ Len(last.ret) < last.top_k) =>
        LET window == RankedWindow
        IN  \A i \in 1..Len(window) :
                SatisfiesFilters(last.filters, window[i])
                    => \E r \in 1..Len(last.ret) : last.ret[r].position = window[i].idx

\* a search with a document filter and no confidence threshold returns
\* fewer than top_k chunks although top_k chunks of the corpus or more
\* satisfy its filters
C27_Witness ==
    /\ last.op = "search"
    /\ last.filters.min_confidence = 0
    /\ last.filters # NoFilters
    /\ Len(last.ret) < last.top_k
    /\ Cardinality(MatchingChunks) >= last.top_k

\* C28: every returned chunk carries vector_score = 1 / (1 + distance) of
\* its vector to the query, bm25_score = the keyword score of its position
\* and relevance_score = 0.6 * vector_score + 0.4 * (bm25_score / 10 if
\* bm25_score > 0, else 0): a zero or negative keyword score adds nothing.
C28_ResultScores ==
    last.op = "search" =>
        \A r \in 1..Len(last.ret) :
            LET res == last.ret[r]
                dist == L2Sqr(index[res.position + 1], Embed(last.query))
                keyword == Bm25GetScores(bm25, Tokenize(last.query))[res.position + 1]
            IN  /\ res.vector_score = 1000 \div (1 + dist)
                /\ res.bm25_score = keyword
                /\ res.bm25_score > 0 =>
                       res.relevance_score
                           = 6 * res.vector_score + 4 * (res.bm25_score \div 10)
                /\ res.bm25_score <= 0 => res.relevance_score = 6 * res.vector_score

\* one returned chunk has a negative keyword score, another has none
C28_Witness ==
    /\ last.op = "search"
    /\ \E r \in 1..Len(last.ret) : last.ret[r].bm25_score < 0
    /\ \E r \in 1..Len(last.ret) : last.ret[r].bm25_score = 0

\* the characters of text at offsets lo, lo + 1, ..., hi - 1 that exist
CharsAt(text, lo, hi) == [k \in 1..(Min(hi, Len(text)) - lo) |-> text[lo + k]]

\* C29: for overlap < chunk_size the chunker returns one chunk per offset 0,
\* s, 2s, ... (s = chunk_size - overlap) below the length of the text, in
\* that order; each is the window of at most chunk_size characters from its
\* offset, trimmed; two consecutive full windows share overlap characters.
C29_ChunkWindows ==
    (ct.pc = "done" /\ ct.overlap < ct.chunk_size) =>
        LET s == ct.chunk_size - ct.overlap
            n == Len(ct.text)
            count == (n + s - 1) \div s
            Full(k) == (k - 1) * s + ct.chunk_size <= n
        IN  /\ Len(ct.chunks) = count
            /\ ct.offsets = [k \in 1..count |-> (k - 1) * s]
            /\ \A k \in 1..count :
                   LET window == CharsAt(ct.text, (k - 1) * s, (k - 1) * s + ct.chunk_size)
                   IN  /\ Len(window) <= ct.chunk_size
                       /\ ct.chunks[k] = Strip(window)
            /\ \A k \in 1..(count - 1) :
                   (Full(k) /\ Full(k + 1)) =>
                       /\ Cardinality(((k - 1) * s + 1..(k - 1) * s + ct.chunk_size)
                                      \cap (k * s + 1..k * s + ct.chunk_size)) = ct.overlap
                       /\ LET this == CharsAt(ct.text, (k - 1) * s, (k - 1) * s + ct.chunk_size)
                              next == CharsAt(ct.text, k * s, k * s + ct.chunk_size)
                          IN  SubSeq(this, ct.chunk_size - ct.overlap + 1, ct.chunk_size)
                                  = SubSeq(next, 1, ct.overlap)

\* a run with an overlap that returns three chunks: two full windows that
\* share a character, the first of them trimmed, and a shorter last window
C29_Witness ==
    /\ ct.pc = "done"
    /\ ct.overlap > 0
    /\ ct.overlap < ct.chunk_size
    /\ Len(ct.chunks) = 3
    /\ ct.offsets[3] + ct.chunk_size > Len(ct.text)
    /\ Len(ct.chunks[1]) < ct.chunk_size
    /\ ct.chunks[1] # <<>>

\* the vector add, the chunk extend, the keyword rebuild and the record
\* update of call t have been made on memory
MutationsMade(t) ==
    LET mine == tasks[t].text_chunks
    IN  /\ Len(index) >= Len(tasks[t].embeddings)
        /\ \A k \in 1..Len(mine) : \E j \in 1..Len(chunks) : chunks[j] = mine[k]
        /\ bm25.built
        /\ \A k \in 1..Len(mine) : \E j \in 1..Len(tokenized_chunks) :
               tokenized_chunks[j] = Tokenize(mine[k].content)
        /\ DocId(tasks[t].file.filename) \in DOMAIN documents
        /\ mode # "unserialized" =>
               /\ documents[DocId(tasks[t].file.filename)].chunks_count = Len(mine)
               /\ Len(chunks) >= Len(mine)
               /\ SubSeq(chunks, Len(chunks) - Len(mine) + 1, Len(chunks)) = mine
               /\ TokensAligned(Mem)

\* C30: a process_document call invokes _save_persistent_data only as its
\* last step, after its vector add, chunk extend, keyword rebuild and record
\* update, and leaves memory as it is; a call that succeeds has invoked it
\* exactly once, a call that fails or raises never.
C30_PersistLast ==
    /\ [](\A t \in TaskIds :
            /\ tasks[t].saves \in {0, 1}
            /\ (tasks[t].pc = "done" /\ tasks[t].status = "ok") => tasks[t].saves = 1
            /\ tasks[t].saves = 1 => (tasks[t].pc = "done" /\ tasks[t].status = "ok"))
    /\ [][\A t \in TaskIds :
            tasks'[t].saves # tasks[t].saves =>
                /\ tasks[t].pc = "save"
                /\ tasks'[t].pc = "done"
                /\ MutationsMade(t)
                /\ UNCHANGED memvars]_vars

\* both calls have succeeded, each after one save, the second of a file
\* that is cut into chunks
C30_Witness ==
    /\ \A t \in TaskIds :
           tasks[t].pc = "done" /\ tasks[t].status = "ok" /\ tasks[t].saves = 1
    /\ Len(chunks) >= 4
    /\ saveStatus = "ok"

\* the fields search_documents adds to the chunks it returns
ScoreFields == {"relevance_score", "vector_score", "bm25_score"}

\* C31: search_documents changes neither the vector index, nor the chunk
\* sequence, nor the keyword index, nor the document records, nor the stored
\* artifacts; the scores are put on copies, so that no stored chunk has a
\* relevance_score, vector_score or bm25_score field.
C31_SearchReadOnly ==
    /\ [](\A i \in 1..Len(chunks) : DOMAIN chunks[i] \cap ScoreFields = {})
    /\ [][last'.op = "search" => UNCHANGED <<memvars, disk, uploads>>]_vars

\* a search has returned two annotated chunks
C31_Witness ==
    /\ last.op = "search"
    /\ Len(last.ret) = 2
    /\ \A r \in 1..2 : ScoreFields \subseteq DOMAIN last.ret[r]
    /\ \A r \in 1..2 : DOMAIN chunks[last.ret[r].position + 1] \cap ScoreFields = {}

RoundedTotal ==
    LET n == Min(3, Len(rag.context_chunks))
    IN  SumOver(1..n, [i \in 1..n |-> Round3(rag.context_chunks[i].relevance_score)])

\* the sum of the relevance scores of those chunks, in ten-thousandths
RawTotal ==
    LET n == Min(3, Len(rag.context_chunks))
    IN  SumOver(1..n, [i \in 1..n |-> rag.context_chunks[i].relevance_score])

Configured == rag.pipeline.client /\ rag.pipeline.api_key_valid

\* C33 (amended): generate_answer never raises.  Without chunks it returns no
\* source and confidence low.  With chunks and no configured client it
\* returns confidence error.  Otherwise, whatever the generative call does,
\* the confidence follows the mean of the relevance scores of the first
\* three chunks, each rounded to three decimals: high above 0.7, medium above
\* 0.5, low otherwise; only when two or three rounded scores have a mean of
\* exactly 0.7 (0.5) can the confidence also be high (medium).
C33_Confidence ==
    rag.pc = "done" =>
        LET n == Min(3, Len(rag.context_chunks))
            confidence == rag.result.confidence
        IN  /\ ~rag.result.raised
            /\ Len(rag.result.sources) = n
            /\ n = 0 => confidence = "low"
            /\ (n > 0 /\ ~Configured) => confidence = "error"
            /\ (n > 0 /\ Configured) =>
                   /\ RoundedTotal > 700 * n => confidence = "high"
                   /\ RoundedTotal = 700 * n =>
                          confidence \in (IF n = 1 THEN {"medium"} ELSE {"high", "medium"})
                   /\ (RoundedTotal < 700 * n /\ RoundedTotal > 500 * n)
                          => confidence = "medium"
                   /\ RoundedTotal = 500 * n =>
                          confidence \in (IF n = 1 THEN {"low"} ELSE {"medium", "low"})
                   /\ RoundedTotal < 500 * n => confidence = "low"

\* four chunks were handed over, the mean of the first three is above 0.7
\* and that of all four is not, the generative call raised, and the
\* confidence is high
C33_Witness ==
    /\ rag.pc = "done"
    /\ Configured
    /\ rag.outcome = "raises"
    /\ Len(rag.context_chunks) = 4
    /\ RoundedTotal > 700 * 3
    /\ RoundedTotal + Round3(rag.context_chunks[4].relevance_score) <= 700 * 4
    /\ rag.result.confidence = "high"

\* C33 as stated: the confidence follows the mean of the relevance scores
\* of the first three chunks as they were returned.
C33_Original ==
    (rag.pc = "done" /\ Len(rag.context_chunks) > 0 /\ Configured) =>
        LET n == Min(3, Len(rag.context_chunks))
            confidence == rag.result.confidence
        IN  /\ RawTotal > 7000 * n => confidence = "high"
            /\ (RawTotal <= 7000 * n /\ RawTotal > 5000 * n) => confidence = "medium"
            /\ RawTotal <= 5000 * n => confidence = "low"

\* C34: whatever the generative call does, an extraction that gets an
\* exception, a text that is not JSON, or JSON that is neither an array nor
\* an object returns a record with an empty data list and an error field.
C34_ExtractionErrors ==
    (/\ ex.pc = "done"
     /\ ex.client
     /\ \/ ex.outcome.raises
        \/ ex.outcome.body \in {"invalid", "scalar"}) =>
        /\ ex.result.data = <<>>
        /\ "error" \in DOMAIN ex.result

\* C35: a process_document call that extracts no chunk returns chunks_count
\* 0 with an error field, leaves the vector index, the chunk sequence, the
\* keyword index, the document records and the stored artifacts as they
\* were, creates no record for the file, and performs no save.
C35_NoTextChangesNothing ==
    [][(last'.op = "ingest" /\ last'.status = "error" /\ ncalls' = ncalls + 1) =>
          /\ last'.ret.chunks_count = 0
          /\ "error" \in DOMAIN last'.ret
          /\ UNCHANGED <<index, chunks, tokenized_chunks, bm25, documents>>
          /\ DOMAIN documents' = DOMAIN documents
          /\ UNCHANGED <<disk, saveStatus>>
          /\ ~last'.saved]_vars

\* after a successful ingestion, a file that yields no chunk was ingested:
\* it has no record
C35_Witness ==
    /\ last.op = "ingest"
    /\ last.status = "error"
    /\ last.ret.chunks_count = 0
    /\ Len(chunks) > 0
    /\ saveStatus = "ok"
    /\ DocId(last.filename) \notin DOMAIN documents

\* C36: of a page text with a character that is not whitespace, every chunk
\* the chunker emits with the arguments of line 180, and every chunk record
\* the extraction makes of the page, has content that is not empty.
C36_NoEmptyChunk ==
    (/\ ct.pc = "done"
     /\ ct.chunk_size = ChunkSize
     /\ ct.overlap = ChunkOverlap
     /\ ~IsBlank(ct.text)) =>
        /\ \A k \in 1..Len(ct.chunks) : ct.chunks[k] # <<>>
        /\ LET records == PageChunks(ct.text, 1, DocId("A.pdf"), "A.pdf")
           IN  \A k \in 1..Len(records) : records[k].content # <<>>

-----------------------------------------------------------------------------
(* The hiring conversation of src/streamlit_app.py *)

\* inputs given to st.chat_input in one behaviour
MaxInputs == 8

LowerLetters == <<"a", "b", "c", "d", "e", "f", "g", "h", "i", "j", "k", "l", "m",
                  "n", "o", "p", "q", "r", "s", "t", "u", "v", "w", "x", "y", "z">>
UpperLetters == <<"A", "B", "C", "D", "E", "F", "G", "H", "I", "J", "K", "L", "M",
                  "N", "O", "P", "Q", "R", "S", "T", "U", "V", "W", "X", "Y", "Z">>
DecimalDigits == <<"0", "1", "2", "3", "4", "5", "6", "7", "8", "9">>

\* the character classes [a-zA-Z], [0-9] and \s of the patterns
IsLetter(c) == \E i \in 1..26 : c = LowerLetters[i] \/ c = UpperLetters[i]
IsDigit(c)  == \E i \in 1..10 : c = DecimalDigits[i]
IsWhitespace(c) == c \in {" ", "\t", "\n"}

\* str.lower of a whole input
LowerCase(s) ==
    [k \in 1..Len(s) |->
        IF \E i \in 1..26 : s[k] = UpperLetters[i]
        THEN LowerLetters[CHOOSE i \in 1..26 : s[k] = UpperLetters[i]]
        ELSE s[k]]

\* kw in text
Contains(text, kw) ==
    \E i \in 1..(Len(text) - Len(kw) + 1) : SubSeq(text, i, i + Len(kw) - 1) = kw

\* what the user types: addresses, a phone number, years, and words that hold
\* an exit keyword
UserInputs ==
    { <<"a", "1", "@", "b", ".", "c", "o">>,
      <<"a", "@", "b", ".", "c", "o", "\n">>,
      <<"+", "9", "9", " ", "3", "4", "5", "-", "6", "7">>,
      <<"0", "5", " ", "y">>,
      <<"b", "y", "e">>,
      <<"u", "n", "D", "O", "N", "E">> }

\* the positions at which $ matches: the end, and before a newline at the end
BeforeDollar(s) ==
    {s} \cup (IF s # <<>> /\ s[Len(s)] = "\n" THEN {SubSeq(s, 1, Len(s) - 1)} ELSE {})

validate_email(email) ==
    \E t \in BeforeDollar(email) :
        \E i \in 2..Len(t), j \in 1..Len(t) :
            /\ t[i] = "@"
            /\ t[j] = "."
            /\ j > i + 1
            /\ Len(t) - j >= 2
            /\ \A k \in 1..(i - 1) : IsLetter(t[k]) \/ IsDigit(t[k])
                                        \/ t[k] \in {".", "_", "%", "+", "-"}
            /\ \A k \in (i + 1)..(j - 1) : IsLetter(t[k]) \/ IsDigit(t[k])
                                              \/ t[k] \in {".", "-"}
            /\ \A k \in (j + 1)..Len(t) : IsLetter(t[k])

\* re.sub(r'[\s\-\(\)]', '', phone)
RECURSIVE CleanedPhone(_)
CleanedPhone(phone) ==
    IF phone = <<>> THEN <<>>
    ELSE IF IsWhitespace(Head(phone)) \/ Head(phone) \in {"-", "(", ")"}
         THEN CleanedPhone(Tail(phone))
         ELSE <<Head(phone)>> \o CleanedPhone(Tail(phone))

validate_phone(phone) ==
    \E t \in BeforeDollar(CleanedPhone(phone)) :
        LET digits == IF t # <<>> /\ t[1] = "+" THEN Tail(t) ELSE t
        IN  /\ Len(digits) \in 7..15
            /\ \A k \in 1..Len(digits) : IsDigit(digits[k])

\* re.findall(r'\d+', exp)[0], or the empty string when nothing is found
FirstNumber(exp) ==
    LET at == {i \in 1..Len(exp) : IsDigit(exp[i])}
    IN  IF at = {} THEN <<>>
        ELSE LET lo == CHOOSE i \in at : \A j \in at : i <= j
                 hi == CHOOSE e \in lo..Len(exp) :
                           /\ \A k \in lo..e : IsDigit(exp[k])
                           /\ e = Len(exp) \/ ~IsDigit(exp[e + 1])
             IN  SubSeq(exp, lo, hi)

\* int() of a string of digits
RECURSIVE int(_)
int(s) ==
    IF s = <<>> THEN 0
    ELSE 10 * int(SubSeq(s, 1, Len(s) - 1))
            + ((CHOOSE i \in 1..10 : DecimalDigits[i] = s[Len(s)]) - 1)

\* str() of a natural number
RECURSIVE str(_)
str(n) ==
    IF n < 10 THEN <<DecimalDigits[n + 1]>>
    ELSE str(n \div 10) \o <<DecimalDigits[(n % 10) + 1]>>

validate_experience(exp) ==
    LET number == FirstNumber(exp)
    IN  IF number # <<>>
        THEN IF int(number) <= 50
             THEN [valid |-> TRUE, years |-> int(number)]
             ELSE [valid |-> FALSE, years |-> -1]
        ELSE [valid |-> FALSE, years |-> -1]

STAGES == <<"greeting", "name", "email", "phone", "experience", "position",
            "location", "tech_stack", "questions", "completed">>

exit_keywords ==
    { <<"b", "y", "e">>, <<"g", "o", "o", "d", "b", "y", "e">>, <<"e", "x", "i", "t">>,
      <<"q", "u", "i", "t">>, <<"d", "o", "n", "e">>, <<"f", "i", "n", "i", "s", "h">> }

\* any(kw == user_input.lower() ...): the whole input is a keyword
HasExitKeywordExact(user_input) == LowerCase(user_input) \in exit_keywords

\* any(kw in user_input.lower() for kw in exit_keywords)
HasExitKeyword(user_input) ==
    \E kw \in exit_keywords : Contains(LowerCase(user_input), kw)

\* ConversationState() and the messages of a new session; the file
\* candidate_data/candidates.json outlives the session
NewConversation(candidates, inputs) ==
    [pc |-> "chat", stage_index |-> 0, data |-> <<>>,
     history |-> <<"assistant">>, messages |-> <<"assistant">>,
     candidates |-> candidates, inputs |-> inputs, saves |-> 0]

current_stage(s) ==
    IF s.stage_index < Len(STAGES) THEN STAGES[s.stage_index + 1] ELSE "completed"

is_complete(s) == current_stage(s) = "completed"

advance(s) ==
    IF s.stage_index < Len(STAGES) - 1
    THEN [s EXCEPT !.stage_index = @ + 1]
    ELSE s

store(s, field, value) ==
    [s EXCEPT !.data = [f \in (DOMAIN s.data) \cup {field} |->
                            IF f = field THEN value ELSE s.data[f]]]

\* a script in which st.rerun() returned and the lines after it ran
RerunReturns(stopped, continued) == continued

\* st.rerun() ends the run of the script: nothing after it is executed
Rerun(stopped, continued) == stopped

\* the level of calculate_match_score
Level(experience) ==
    IF experience < 2 THEN "Junior"
    ELSE IF experience < 5 THEN "Mid-Level" ELSE "Senior"

SaveOutcomes == {"ok", "makedirs", "io"}

\* save_candidate_data(st.session_state.state.data): the dictionary is the
\* conversation's own, so the two fields of lines 126-127 are stored in it;
\* makedirs, open, json.load and json.dump can raise
save_candidate_data(s, outcome) ==
    IF outcome = "makedirs" THEN s
    ELSE LET stamped == store(store(s, "submission_timestamp", s.inputs),
                              "candidate_id", s.inputs)
         IN  IF outcome = "io" THEN stamped
             ELSE [stamped EXCEPT !.candidates = Append(@, stamped.data),
                                  !.saves = @ + 1]

\* lines 505-506
Respond(s) ==
    [s EXCEPT !.messages = Append(@, "assistant"), !.history = Append(@, "assistant")]

\* lines 417-418, 429-430, 441-442
Reject(s) == [s EXCEPT !.messages = Append(@, "assistant")]

\* lines 400-507: the dispatch on the stage
ProcessStage(s, user_input, outcome) ==
    LET stage == current_stage(s)
    IN  CASE stage = "greeting" ->
                Respond(advance(advance(store(s, "name", user_input))))
          [] stage = "email" ->
                Rerun(IF validate_email(user_input) THEN Respond(advance(store(s, "email", user_input)))
                      ELSE Reject(s),
                      Respond(advance(store(Reject(s), "email", user_input))))
          [] stage = "phone" ->
                Rerun(IF validate_phone(user_input) THEN Respond(advance(store(s, "phone", user_input)))
                      ELSE Reject(s),
                      Respond(advance(store(Reject(s), "phone", user_input))))
          [] stage = "experience" ->
                LET checked == validate_experience(user_input)
                    years   == IF checked.valid THEN str(checked.years)
                               ELSE <<"N", "o", "n", "e">>
                IN  Rerun(IF checked.valid THEN Respond(advance(store(s, "experience", years)))
                          ELSE Reject(s),
                          Respond(advance(store(Reject(s), "experience", years))))
          [] stage \in {"position", "location"} ->
                Respond(advance(store(s, stage, user_input)))
          [] stage = "tech_stack" ->
                LET answered   == advance(store(s, "tech_stack", user_input))
                    experience == IF "experience" \in DOMAIN answered.data
                                  THEN int(answered.data["experience"]) ELSE 0
                    analysed   == store(answered, "match_analysis",
                                        [level |-> Level(experience)])
                    asked      == advance(store(analysed, "technical_questions", "questions"))
                    saved      == save_candidate_data(asked, outcome)
                IN  IF outcome = "ok" THEN Respond(saved) ELSE saved
          [] OTHER -> Respond(s)

\* lines 387-398 and then the dispatch: one run of the script with an input
HandleInput(s, user_input, outcome) ==
    LET heard == [s EXCEPT !.messages = Append(@, "user"),
                           !.history = Append(@, "user"),
                           !.inputs = @ + 1]
        ended == [heard EXCEPT !.stage_index = Len(STAGES) - 1,
                               !.messages = Append(@, "assistant")]
    IN  IF HasExitKeyword(user_input)
        THEN Rerun(ended, ProcessStage(Respond(ended), user_input, outcome))
        ELSE ProcessStage(heard, user_input, outcome)

InitConversation ==
    /\ InitProcessor
    /\ ct = IdleCt
    /\ sc = IdleSc
    /\ tasks = <<>>
    /\ mode = "serial"

\* the first run of the script in a browser session
OpenSession ==
    /\ conv.pc = "idle"
    /\ conv' = NewConversation(<<>>, 0)
    /\ UNCHANGED <<procvars, rag, ex>>

\* a run of the script in which st.chat_input returns what the user typed
ChatInput ==
    /\ conv.pc = "chat"
    /\ ~is_complete(conv)
    /\ conv.inputs < MaxInputs
    /\ \E user_input \in UserInputs :
          \E outcome \in IF current_stage(conv) = "tech_stack" /\ ~HasExitKeyword(user_input)
                         THEN SaveOutcomes ELSE {"ok"} :
              conv' = HandleInput(conv, user_input, outcome)
    /\ UNCHANGED <<procvars, rag, ex>>

\* the button "Start New Interview" of the completed page
StartNewInterview ==
    /\ conv.pc = "chat"
    /\ is_complete(conv)
    /\ conv' = NewConversation(conv.candidates, conv.inputs)
    /\ UNCHANGED <<procvars, rag, ex>>

NextConversation == OpenSession \/ ChatInput \/ StartNewInterview

SpecConversation == InitConversation /\ [][NextConversation]_vars

-----------------------------------------------------------------------------
(* Properties of the hiring conversation *)

CompletedIndex == Len(STAGES) - 1

CandidateFields ==
    {"name", "email", "phone", "experience", "position", "location", "tech_stack"}

\* the inputs in which an exit keyword occurs, in any case of its letters
ExitInputs ==
    {user_input \in UserInputs :
        \E kw \in exit_keywords : Contains(LowerCase(user_input), kw)}

\* the inputs without an exit keyword that the validator of a stage rejects
RejectedInputs ==
    [stage \in {"email", "phone", "experience"} |->
        {user_input \in UserInputs \ ExitInputs :
            \/ stage = "email" /\ ~validate_email(user_input)
            \/ stage = "phone" /\ ~validate_phone(user_input)
            \/ stage = "experience" /\ ~validate_experience(user_input).valid}]

\* C37: an input that holds an exit keyword, typed at any stage but the
\* completed one, takes the conversation to the completed stage; a completed
\* conversation processes no input (its steps are none but the start of a
\* new conversation); the stage index of a conversation stays within
\* 0..9 and never decreases.
C37_ExitKeyword ==
    /\ [](conv.pc = "chat" =>
            /\ conv.stage_index \in 0..CompletedIndex
            /\ ~is_complete(conv) =>
                 \A user_input \in ExitInputs, outcome \in SaveOutcomes :
                    LET after == HandleInput(conv, user_input, outcome)
                    IN  /\ after.stage_index = CompletedIndex
                        /\ after.data = conv.data
                        /\ after.candidates = conv.candidates)
    /\ [][conv.pc = "chat" =>
            \/ conv' = NewConversation(conv.candidates, conv.inputs) /\ is_complete(conv)
            \/ /\ conv'.stage_index >= conv.stage_index
               /\ is_complete(conv) => conv' = conv]_vars

\* a conversation that an exit keyword ended after the email was given and
\* before the tech stack was
C37_Witness ==
    /\ conv.pc = "chat"
    /\ is_complete(conv)
    /\ "email" \in DOMAIN conv.data
    /\ "tech_stack" \notin DOMAIN conv.data

\* C38: a conversation appends at most one record to the candidates file, and
\* only in the step that processes the tech_stack answer; the record holds
\* name, email, phone, experience, position, location and tech_stack, and its
\* email, phone and experience pass their validators; an input that fails
\* the validator of its stage leaves the stage and the stored fields as
\* they were.
C38_SavedOnce ==
    /\ [](conv.pc = "chat" =>
            /\ conv.saves <= 1
            /\ current_stage(conv) \in DOMAIN RejectedInputs =>
                 \A user_input \in RejectedInputs[current_stage(conv)],
                    outcome \in SaveOutcomes :
                    LET after == HandleInput(conv, user_input, outcome)
                    IN  /\ after.stage_index = conv.stage_index
                        /\ after.data = conv.data
                        /\ after.candidates = conv.candidates)
    /\ [][(conv.pc = "chat" /\ conv'.candidates # conv.candidates) =>
            /\ current_stage(conv) = "tech_stack"
            /\ conv'.saves = conv.saves + 1
            /\ Len(conv'.candidates) = Len(conv.candidates) + 1
            /\ SubSeq(conv'.candidates, 1, Len(conv.candidates)) = conv.candidates
            /\ LET record == conv'.candidates[Len(conv'.candidates)]
               IN  /\ CandidateFields \subseteq DOMAIN record
                   /\ \A f \in CandidateFields \ {"tech_stack"} :
                         f \in DOMAIN conv.data /\ record[f] = conv.data[f]
                   /\ validate_email(record["email"])
                   /\ validate_phone(record["phone"])
                   /\ validate_experience(record["experience"]).valid]_vars

\* a record was saved in a conversation in which an input had been rejected,
\* and the experience it holds is the number read from the answer
C38_Witness ==
    /\ conv.pc = "chat"
    /\ conv.saves = 1
    /\ Len(conv.candidates) = 1
    /\ Len(conv.messages) > Len(conv.history)
    /\ conv.candidates[1]["experience"] = <<"5">>

====
